---- MODULE Spec2Model ----
(***************************************************************************)
(* Live-markdown preview: the session store (src/src/session.rs), the hub  *)
(* each Session owns (a tokio broadcast channel) and the event stream of   *)
(* one viewer connection (src/src/server.rs, events).                      *)
(*                                                                         *)
(* Every critical section of the store (the code between acquiring one of  *)
(* the two RwLocks and releasing it) is one atomic action.  An operation   *)
(* that takes locks more than once is a sequence of actions, with the      *)
(* calling task's position in pc and its local variables in local.         *)
(***************************************************************************)
EXTENDS Integers, Sequences, FiniteSets, TLC

\* ---------------------------------------------------------------- bounds
\* Events a receiver has been sent and has not yet taken (the code: up to
\* EVENT_CHANNEL_CAPACITY).
MaxQueue == 2
\* Size of the digest space the model folds a text into (the code: u64).
HashSpace == 3
\* Event streams ever opened (client ids handed out by the server).
MaxClients == 2
\* Event streams ever opened while two tasks race (Spec).
MaxRaceClients == 1
\* Callers of the duplicate-update scenario (SpecDup).
NumDupTasks == 2

\* ------------------------------------------------------- program constants
EVENT_CHANNEL_CAPACITY == 256

\* ---------------------------------------------------------------- inputs
Docs == {1, 2}
\* Tasks that call the store concurrently.
Tasks == {1, 2}
\* The one task of the stream scenario (SpecStreams).
StreamTasks == {1}
DupTasks == 1..NumDupTasks
\* The tasks of the editing scenario (SpecEditor), one for each report of the
\* editor.
EditorTasks == {1, 2, 3, 4}
AllTasks == Tasks \cup DupTasks \cup EditorTasks
\* SessionEndReason values the plugin passes: stop_preview passes Stopped, a
\* wiped-out buffer BufferClosed.  The plugin calls stop_all with Stopped,
\* which is what the stream scenario does.  In the lifecycle scenario a
\* single stop is that of a wiped-out buffer, and stop_all is called with
\* either reason.
Reasons == {"Stopped", "BufferClosed"}
StopAllReasons == {"Stopped"}
WipeoutReasons == {"BufferClosed"}

\* Option<T>: None or Some(x).
None == <<>>
Some(x) == <<x>>

\* BufferSnapshot values the editor side produces.  Texts are one-line plain
\* paragraphs over the characters a < &; source paths come untrimmed.
Snapshot(b, t, m, l, c, sp) ==
  [bufnr |-> b, changedtick |-> t, markdown |-> m, cursor_line |-> l,
   cursor_col |-> c, source_path |-> sp]

\* The snapshots of the lifecycle scenario (Spec): two documents.
Snapshots ==
  { Snapshot(1, 1, <<"a">>, 1, 0, None),
    Snapshot(1, 1, <<"<">>, 2, 1, Some(<<" ", "d", "/", "f", " ">>)),
    Snapshot(2, 1, <<"a">>, 1, 0, None) }

\* The snapshots of the content scenarios (SpecContent, SpecDup): one
\* document; the same text under two change sequences, and two texts with the
\* same change sequence whose digests may coincide.
ContentDocs == {1}
ContentSnapshots ==
  { Snapshot(1, 1, <<"a">>, 1, 0, None),
    Snapshot(1, 2, <<"a">>, 1, 0, Some(<<" ">>)),
    Snapshot(1, 1, <<"<">>, 2, 1, Some(<<" ", "d", "/", "f", " ">>)),
    Snapshot(1, 1, <<"a", "&">>, 2, 1, None) }

CursorLines == {1, 2}
CursorCols == {0, 1}

\* ------------------------------------------------------------ pure helpers
Byte(ch) ==
  CASE ch = "a" -> 97
    [] ch = "<" -> 60
    [] ch = "&" -> 38
    [] ch = " " -> 32
    [] ch = "/" -> 47
    [] ch = "d" -> 100
    [] ch = "f" -> 102

\* content_hash: a digest of the bytes of the text.  The code's digest has
\* 64 bits; the model's has HashSpace values, so that two different texts can
\* have the same digest, as they can in the code.
RECURSIVE HashFrom(_, _)
HashFrom(h, input) ==
  IF input = <<>> THEN h
  ELSE HashFrom((h * 31 + Byte(Head(input))) % HashSpace, Tail(input))

content_hash(input) == HashFrom(0, input)

\* str::trim on a sequence of characters.
RECURSIVE TrimStart(_)
TrimStart(s) ==
  IF s # <<>> /\ Head(s) = " " THEN TrimStart(Tail(s)) ELSE s

RECURSIVE TrimEnd(_)
TrimEnd(s) ==
  IF s # <<>> /\ s[Len(s)] = " " THEN TrimEnd(SubSeq(s, 1, Len(s) - 1)) ELSE s

Trim(s) == TrimEnd(TrimStart(s))

snapshot_source_path(path) ==
  IF path = None THEN None
  ELSE LET trimmed == Trim(path[1])
       IN IF trimmed = <<>> THEN None ELSE Some(trimmed)

\* Path::file_name for paths over the model's characters: the last component.
RECURSIVE LastComponent(_)
LastComponent(p) ==
  IF \E i \in 1..Len(p) : p[i] = "/"
  THEN LastComponent(Tail(p))
  ELSE p

FileName(source_path) ==
  IF source_path = None \/ LastComponent(source_path[1]) = <<>>
  THEN "buffer"
  ELSE LastComponent(source_path[1])

\* An escape that would leave the quotation marks as they are.
EscapeCharInText(ch) ==
  CASE ch = "&" -> "&amp;"
    [] ch = "<" -> "&lt;"
    [] ch = ">" -> "&gt;"
    [] OTHER -> ch

\* push_escaped_html, one character.
EscapeChar(ch) ==
  CASE ch = "&" -> "&amp;"
    [] ch = "<" -> "&lt;"
    [] ch = ">" -> "&gt;"
    [] ch = "\"" -> "&quot;"
    [] ch = "'" -> "&#39;"
    [] OTHER -> ch

push_escaped_html(text) == [i \in 1..Len(text) |-> EscapeChar(text[i])]

\* render on a one-line plain paragraph: the root container, the paragraph
\* with its line marker, the escaped text.  Html is a sequence of pieces.
render(markdown) ==
  <<"<article id=\"md-root\">">>
  \o (IF markdown = <<>> THEN <<>>
      ELSE <<"<p data-line=\"1\">">> \o push_escaped_html(markdown) \o <<"</p>">>)
  \o <<"</article>">>

\* ------------------------------------------------------------ server events
RenderFull(b, html, line) ==
  [type |-> "render_full", bufnr |-> b, html |-> html, cursor_line |-> line]
CursorMove(b, line, col) ==
  [type |-> "cursor_move", bufnr |-> b, line |-> line, col |-> col]
SessionEnd(b, reason) ==
  [type |-> "session_end", bufnr |-> b, reason |-> reason]
Heartbeat(b) == [type |-> "heartbeat", bufnr |-> b]


\* ------------------------------------------------------------------- state
VARIABLES
  sessions,          \* SessionManager.sessions: bufnr -> Session (a partial map)
  active_bufnr,      \* SessionManager.active_bufnr: Option<i64>
  rx,                \* open broadcast receivers (event streams), by client id:
                     \* the hub each listens to and the events it has yet to take
  client_id_counter, \* HttpState.client_id_counter: the next client id
  pc,                \* position of each task inside the operation it runs
  local,             \* that operation's local variables
  ret,               \* the call the last step completed, with its result
  out,               \* the events the last step sent, each with its hub
  autocmd,           \* AutocmdGate.state: the GateState behind the gate's mutex
  now,               \* Instant::now(): the monotonic clock, in ticks
  last_allowed,      \* history: per document, the last call the gate allowed
                     \* since the document was cleared (its time, its line)
  runtime            \* ServerController.runtime: the ServerRuntime behind the
                     \* server's mutex (addr; shutdown and task are Some with it)

vars == <<sessions, active_bufnr, rx, client_id_counter, pc, local, ret, out,
          autocmd, now, last_allowed, runtime>>

\* GateState::default, the clock at its origin, no call allowed yet, and
\* ServerRuntime::default: the server is not running.
GateNew ==
  /\ autocmd = [last_content_emit |-> None, last_cursor_emit |-> None]
  /\ now = 0
  /\ last_allowed = [content |-> [b \in Docs |-> None],
                     cursor |-> [b \in Docs |-> None]]
  /\ runtime = [addr |-> None]

\* A step that neither calls the gate, nor takes time, nor starts or stops
\* the server.
GateIdle == UNCHANGED <<autocmd, now, last_allowed, runtime>>

NoLocal == [bufnr |-> 0]
NoCall == [op |-> "none"]

\* Session::new: the hub is created here, and nowhere else.
SessionNew(b, hub) ==
  [bufnr |-> b, changedtick |-> 0, content_hash |-> 0, cursor_line |-> 1,
   cursor_col |-> 0, subscribers |-> {}, html |-> <<>>, source_path |-> None,
   state |-> "Idle", broadcaster |-> hub]

Has(b) == b \in DOMAIN sessions

\* A remove that would leave the entry in the map.
MapKeep(m, k) == m

\* HashMap insert / remove.
MapPut(m, k, v) == [x \in DOMAIN m \cup {k} |-> IF x = k THEN v ELSE m[x]]
MapDel(m, k) == [x \in DOMAIN m \ {k} |-> m[x]]

\* The Sessions a task holds after taking them out of the map.
Held(p) ==
  IF pc[p] = "stop_active" THEN {local[p].session}
  ELSE IF pc[p] = "stop_all_send" THEN local[p].removed
  ELSE {}

\* The hubs that exist: a broadcast channel lives while a Sender (a Session in
\* the map or in the locals of the stop that took it out) or a Receiver holds
\* it.
SenderAlive(h) ==
  \/ \E b \in DOMAIN sessions : sessions[b].broadcaster = h
  \/ \E p \in AllTasks : \E s \in Held(p) : s.broadcaster = h

LiveHubs ==
  {sessions[b].broadcaster : b \in DOMAIN sessions}
  \cup {rx[c].hub : c \in DOMAIN rx}
  \cup UNION { {s.broadcaster : s \in Held(p)} : p \in AllTasks }

\* A channel that would be the first one of its document over again.
FirstHub(b) == [doc |-> b, gen |-> 0]

\* broadcast::channel(): a channel that is none of the existing ones.  A hub
\* is named by the document of its Session and a serial number.
NewHub(b) ==
  LET used == {h \in LiveHubs : h.doc = b}
  IN [doc |-> b,
      gen |-> CHOOSE g \in 0..Cardinality(used) :
                /\ [doc |-> b, gen |-> g] \notin used
                /\ \A k \in 0..(g - 1) : [doc |-> b, gen |-> k] \in used]

\* A channel that, when a receiver is full, would drop the new event.
EnqueueDropNewest(queue, ev) ==
  IF Len(queue) >= EVENT_CHANNEL_CAPACITY THEN queue ELSE Append(queue, ev)

\* A channel that would hand a receiver the newest event first.
EnqueueFront(queue, ev) == <<ev>> \o queue

\* broadcast::Sender::send: every receiver of the channel gets the event; a
\* receiver that already holds EVENT_CHANNEL_CAPACITY events loses the oldest.
\* Without receivers the event is dropped (the error is ignored: let _ =).
Enqueue(queue, ev) ==
  IF Len(queue) >= EVENT_CHANNEL_CAPACITY THEN Append(Tail(queue), ev)
  ELSE Append(queue, ev)

Send(r, h, ev) ==
  [c \in DOMAIN r |->
     IF r[c].hub = h THEN [r[c] EXCEPT !.queue = Enqueue(@, ev)] ELSE r[c]]

Sent(h, ev) == [hub |-> h, event |-> ev]

\* A cap that would make a send wait for the stalled receivers as well.
RoomStalledToo(h) ==
  \A c \in DOMAIN rx : rx[c].hub = h => Len(rx[c].queue) < MaxQueue

\* The model's cap on the backlog of a receiver whose viewer keeps reading: a
\* send comes when every such receiver of the hub holds fewer than MaxQueue
\* events.  The backlog of a stalled receiver (its viewer has stopped reading,
\* the stream is not polled) is bounded by the channel alone.
Room(h) ==
  \A c \in DOMAIN rx :
    (rx[c].hub = h /\ ~rx[c].stalled) => Len(rx[c].queue) < MaxQueue

\* SessionManager::default and HttpState::new: no Session, no active
\* document, no stream, client ids from 1.
Init ==
  /\ sessions = <<>>
  /\ active_bufnr = None
  /\ rx = <<>>
  /\ client_id_counter = 1
  /\ pc = [p \in AllTasks |-> "idle"]
  /\ local = [p \in AllTasks |-> NoLocal]
  /\ ret = NoCall
  /\ out = <<>>
  /\ GateNew

Return(p, call) ==
  /\ pc' = [pc EXCEPT ![p] = "idle"]
  /\ local' = [local EXCEPT ![p] = NoLocal]
  /\ ret' = call

Goto(p, label, loc) ==
  /\ pc' = [pc EXCEPT ![p] = label]
  /\ local' = [local EXCEPT ![p] = loc]
  /\ ret' = NoCall

\* ------------------------------------------------------------ start_session
\* A start that commits while a stop_all is between its drain and its return
\* is recorded in that stop_all's locals (raced), for the properties that
\* exclude such a start.
MarkRaced(p, loc) ==
  [q \in AllTasks |->
     IF q = p THEN loc
     ELSE IF pc[q] = "stop_all_send" THEN [local[q] EXCEPT !.raced = TRUE]
     ELSE local[q]]

\* A start that would give every call a fresh Session, and so a fresh hub.
SessionEntryAlwaysNew(b) == SessionNew(b, NewHub(b))

\* sessions.entry(bufnr).or_insert_with(|| Session::new(bufnr))
SessionEntry(b) == IF Has(b) THEN sessions[b] ELSE SessionNew(b, NewHub(b))

\* A start that would leave the lifecycle state as it finds it.
StartedKeepsState(session, snapshot, hash, rendered_html) ==
  [session EXCEPT !.changedtick = snapshot.changedtick,
                  !.content_hash = hash,
                  !.cursor_line = snapshot.cursor_line,
                  !.cursor_col = snapshot.cursor_col,
                  !.html = rendered_html,
                  !.source_path = snapshot_source_path(snapshot.source_path)]

\* The fields start_session overwrites.
Started(session, snapshot, hash, rendered_html) ==
  [session EXCEPT !.state = "Running",
                  !.changedtick = snapshot.changedtick,
                  !.content_hash = hash,
                  !.cursor_line = snapshot.cursor_line,
                  !.cursor_col = snapshot.cursor_col,
                  !.html = rendered_html,
                  !.source_path = snapshot_source_path(snapshot.source_path)]

\* From the call to the release of the map's write lock: render, hash, insert
\* or reuse the Session, overwrite its fields, send RenderFull.
StartSession(p, snapshot) ==
  LET b == snapshot.bufnr
      rendered_html == render(snapshot.markdown)
      hash == content_hash(snapshot.markdown)
      session == Started(SessionEntry(b), snapshot, hash, rendered_html)
      ev == RenderFull(b, rendered_html, snapshot.cursor_line)
  IN /\ pc[p] = "idle"
     /\ Room(session.broadcaster)
     /\ sessions' = MapPut(sessions, b, session)
     /\ rx' = Send(rx, session.broadcaster, ev)
     /\ out' = <<Sent(session.broadcaster, ev)>>
     /\ pc' = [pc EXCEPT ![p] = "start_active"]
     /\ local' = MarkRaced(p, [bufnr |-> b])
     /\ ret' = NoCall
     /\ UNCHANGED <<active_bufnr, client_id_counter>>

\* The write of active_bufnr, under its own lock, after the map's lock is
\* released.
StartSetActive(p) ==
  /\ pc[p] = "start_active"
  /\ active_bufnr' = Some(local[p].bufnr)
  /\ Return(p, [op |-> "start_session", arg |-> local[p].bufnr])
  /\ out' = <<>>
  /\ UNCHANGED <<sessions, rx, client_id_counter>>

\* ------------------------------------------------------------- stop_session
\* A stop that would leave the Session it removes Running.
RemovedRunning(session) ==
  [bufnr |-> session.bufnr, broadcaster |-> session.broadcaster,
   state |-> "Running"]

\* Of a Session taken out of the map, the fields the code still reads.
Removed(session) ==
  [bufnr |-> session.bufnr, broadcaster |-> session.broadcaster,
   state |-> session.state]

\* A stop that would clear the active document whatever it is.
ClearActiveAlways(active, bufnr) == None

\* if active.is_some_and(|active_buf| *active_buf == bufnr) { *active = None }
ClearActive(active, bufnr) == IF active = Some(bufnr) THEN None ELSE active

\* Under the map's write lock: remove, mark Stopped, send SessionEnd.
StopSession(p, bufnr, reason) ==
  /\ pc[p] = "idle"
  /\ IF ~Has(bufnr)
     THEN /\ Return(p, [op |-> "stop_session", arg |-> bufnr, val |-> FALSE])
          /\ out' = <<>>
          /\ UNCHANGED <<sessions, active_bufnr, rx, client_id_counter>>
     ELSE LET session == [sessions[bufnr] EXCEPT !.state = "Stopped"]
              ev == SessionEnd(bufnr, reason)
          IN /\ Room(session.broadcaster)
             /\ sessions' = MapDel(sessions, bufnr)
             /\ rx' = Send(rx, session.broadcaster, ev)
             /\ out' = <<Sent(session.broadcaster, ev)>>
             /\ Goto(p, "stop_active",
                     [bufnr |-> bufnr, session |-> Removed(session)])
             /\ UNCHANGED <<active_bufnr, client_id_counter>>

\* Under the lock of active_bufnr: clear it if it names the document.  The
\* removed Session is dropped at the return.
StopSessionActive(p) ==
  /\ pc[p] = "stop_active"
  /\ active_bufnr' = ClearActive(active_bufnr, local[p].bufnr)
  /\ Return(p, [op |-> "stop_session", arg |-> local[p].bufnr, val |-> TRUE])
  /\ out' = <<>>
  /\ UNCHANGED <<sessions, rx, client_id_counter>>

\* ----------------------------------------------------------------- stop_all
\* A drain that would lose the Sessions of all documents but the smallest.
DrainedFirstOnly(m) ==
  {Removed(m[b]) : b \in {x \in DOMAIN m : \A y \in DOMAIN m : x <= y}}

\* sessions.drain().collect()
Drained(m) == {Removed(m[b]) : b \in DOMAIN m}

\* drain() under the write lock; the lock is released before anything is sent.
StopAll(p, reason) ==
  /\ pc[p] = "idle"
  /\ \A b \in DOMAIN sessions : Room(sessions[b].broadcaster)
  /\ sessions' = <<>>
  /\ Goto(p, "stop_all_send",
          [reason |-> reason, removed |-> Drained(sessions), raced |-> FALSE])
  /\ out' = <<>>
  /\ UNCHANGED <<active_bufnr, rx, client_id_counter>>

\* One iteration of the loop over the drained Sessions (in the map's drain
\* order, which is arbitrary): mark it Stopped, send SessionEnd, drop it.
StopAllSend(p) ==
  /\ pc[p] = "stop_all_send"
  /\ \E drained \in local[p].removed :
       LET session == [drained EXCEPT !.state = "Stopped"]
           ev == SessionEnd(session.bufnr, local[p].reason)
       IN /\ rx' = Send(rx, session.broadcaster, ev)
          /\ out' = <<Sent(session.broadcaster, ev)>>
          /\ local' = [local EXCEPT ![p].removed = @ \ {drained}]
  /\ ret' = NoCall
  /\ UNCHANGED <<sessions, active_bufnr, client_id_counter, pc>>

\* After the loop: the write of active_bufnr, and the return.
StopAllActive(p) ==
  /\ pc[p] = "stop_all_send"
  /\ local[p].removed = {}
  /\ active_bufnr' = None
  /\ Return(p, [op |-> "stop_all", raced |-> local[p].raced])
  /\ out' = <<>>
  /\ UNCHANGED <<sessions, rx, client_id_counter>>

\* ----------------------------------------------------------- pause / resume
\* A pause that would also take the document out of the foreground.
PauseSessionClearsActive(p, bufnr) ==
  /\ pc[p] = "idle"
  /\ sessions' = IF Has(bufnr)
                 THEN [sessions EXCEPT ![bufnr].state = "Paused"]
                 ELSE sessions
  /\ active_bufnr' = ClearActive(active_bufnr, bufnr)
  /\ Return(p, [op |-> "pause_session", arg |-> bufnr])
  /\ out' = <<>>
  /\ UNCHANGED <<rx, client_id_counter>>

\* One critical section: the state of the Session, if there is one.
PauseSession(p, bufnr) ==
  /\ pc[p] = "idle"
  /\ sessions' = IF Has(bufnr)
                 THEN [sessions EXCEPT ![bufnr].state = "Paused"]
                 ELSE sessions
  /\ Return(p, [op |-> "pause_session", arg |-> bufnr])
  /\ out' = <<>>
  /\ UNCHANGED <<active_bufnr, rx, client_id_counter>>

ResumeSession(p, bufnr) ==
  /\ pc[p] = "idle"
  /\ sessions' = IF Has(bufnr)
                 THEN [sessions EXCEPT ![bufnr].state = "Running"]
                 ELSE sessions
  /\ Goto(p, "resume_active", [bufnr |-> bufnr])
  /\ out' = <<>>
  /\ UNCHANGED <<active_bufnr, rx, client_id_counter>>

ResumeSetActive(p) ==
  /\ pc[p] = "resume_active"
  /\ active_bufnr' = Some(local[p].bufnr)
  /\ Return(p, [op |-> "resume_session", arg |-> local[p].bufnr])
  /\ out' = <<>>
  /\ UNCHANGED <<sessions, rx, client_id_counter>>

\* ----------------------------------------------------------- update_content
\* An update that would never find the content unchanged.
NeverSame(session, snapshot, new_hash) == FALSE

\* The no-op test under the read lock.
SameContent(session, snapshot, new_hash) ==
  session.changedtick = snapshot.changedtick /\ session.content_hash = new_hash

\* An update that would trust the test made under the read lock.
RecheckSkipped(session, snapshot, new_hash) == FALSE

\* The same test, made again under the write lock.
SameContentRecheck(session, snapshot, new_hash) ==
  session.changedtick = snapshot.changedtick /\ session.content_hash = new_hash

\* A content update that would leave the cursor column as it was.
ApplyContentKeepsCol(session, snapshot, new_hash, rendered_html) ==
  [session EXCEPT !.changedtick = snapshot.changedtick,
                  !.content_hash = new_hash,
                  !.cursor_line = snapshot.cursor_line,
                  !.html = rendered_html,
                  !.source_path = snapshot_source_path(snapshot.source_path)]

\* A content update that would leave the html as it was.
ApplyContentStaleHtml(session, snapshot, new_hash, rendered_html) ==
  [session EXCEPT !.changedtick = snapshot.changedtick,
                  !.content_hash = new_hash,
                  !.cursor_line = snapshot.cursor_line,
                  !.cursor_col = snapshot.cursor_col,
                  !.source_path = snapshot_source_path(snapshot.source_path)]

\* The fields update_content and rerender_content overwrite.
ApplyContent(session, snapshot, new_hash, rendered_html) ==
  [session EXCEPT !.changedtick = snapshot.changedtick,
                  !.content_hash = new_hash,
                  !.cursor_line = snapshot.cursor_line,
                  !.cursor_col = snapshot.cursor_col,
                  !.html = rendered_html,
                  !.source_path = snapshot_source_path(snapshot.source_path)]

\* The optimistic check under the read lock.
UpdateContentRead(p, snapshot) ==
  LET new_hash == content_hash(snapshot.markdown)
  IN /\ pc[p] = "idle"
     /\ IF \/ ~Has(snapshot.bufnr)
           \/ SameContent(sessions[snapshot.bufnr], snapshot, new_hash)
        THEN Return(p, [op |-> "update_content", arg |-> snapshot, val |-> FALSE])
        ELSE Goto(p, "update_write", [snapshot |-> snapshot, new_hash |-> new_hash])
     /\ out' = <<>>
     /\ UNCHANGED <<sessions, active_bufnr, rx, client_id_counter>>

\* render outside the locks, then the write lock: look the Session up again,
\* test again, overwrite, send RenderFull.
UpdateContentWrite(p) ==
  LET snapshot == local[p].snapshot
      new_hash == local[p].new_hash
      rendered_html == render(snapshot.markdown)
      b == snapshot.bufnr
      ev == RenderFull(b, rendered_html, snapshot.cursor_line)
  IN /\ pc[p] = "update_write"
     /\ IF ~Has(b) \/ SameContentRecheck(sessions[b], snapshot, new_hash)
        THEN /\ Return(p, [op |-> "update_content", arg |-> snapshot, val |-> FALSE])
             /\ out' = <<>>
             /\ UNCHANGED <<sessions, rx>>
        ELSE /\ Room(sessions[b].broadcaster)
             /\ sessions' = [sessions EXCEPT
                               ![b] = ApplyContent(@, snapshot, new_hash, rendered_html)]
             /\ rx' = Send(rx, sessions[b].broadcaster, ev)
             /\ out' = <<Sent(sessions[b].broadcaster, ev)>>
             /\ Return(p, [op |-> "update_content", arg |-> snapshot, val |-> TRUE])
     /\ UNCHANGED <<active_bufnr, client_id_counter>>

\* --------------------------------------------------------- rerender_content
\* A rerender that would skip unchanged content, as update_content does.
RerenderContentIfChanged(p, snapshot) ==
  LET rendered_html == render(snapshot.markdown)
      new_hash == content_hash(snapshot.markdown)
      b == snapshot.bufnr
      ev == RenderFull(b, rendered_html, snapshot.cursor_line)
  IN /\ pc[p] = "idle"
     /\ IF ~Has(b) \/ SameContent(sessions[b], snapshot, new_hash)
        THEN /\ Return(p, [op |-> "rerender_content", arg |-> snapshot, val |-> FALSE])
             /\ out' = <<>>
             /\ UNCHANGED <<sessions, rx>>
        ELSE /\ Room(sessions[b].broadcaster)
             /\ sessions' = [sessions EXCEPT
                               ![b] = ApplyContent(@, snapshot, new_hash, rendered_html)]
             /\ rx' = Send(rx, sessions[b].broadcaster, ev)
             /\ out' = <<Sent(sessions[b].broadcaster, ev)>>
             /\ Return(p, [op |-> "rerender_content", arg |-> snapshot, val |-> TRUE])
     /\ UNCHANGED <<active_bufnr, client_id_counter>>

RerenderContent(p, snapshot) ==
  LET rendered_html == render(snapshot.markdown)
      new_hash == content_hash(snapshot.markdown)
      b == snapshot.bufnr
      ev == RenderFull(b, rendered_html, snapshot.cursor_line)
  IN /\ pc[p] = "idle"
     /\ IF ~Has(b)
        THEN /\ Return(p, [op |-> "rerender_content", arg |-> snapshot, val |-> FALSE])
             /\ out' = <<>>
             /\ UNCHANGED <<sessions, rx>>
        ELSE /\ Room(sessions[b].broadcaster)
             /\ sessions' = [sessions EXCEPT
                               ![b] = ApplyContent(@, snapshot, new_hash, rendered_html)]
             /\ rx' = Send(rx, sessions[b].broadcaster, ev)
             /\ out' = <<Sent(sessions[b].broadcaster, ev)>>
             /\ Return(p, [op |-> "rerender_content", arg |-> snapshot, val |-> TRUE])
     /\ UNCHANGED <<active_bufnr, client_id_counter>>

\* ------------------------------------------------------------ update_cursor
\* A duplicate test that would look at the line only.
SameCursorLineOnly(session, line, col) == session.cursor_line = line

\* session.cursor_line == line && session.cursor_col == col
SameCursor(session, line, col) ==
  session.cursor_line = line /\ session.cursor_col = col

\* A cursor update that would create the Session it does not find.
UpdateCursorOrCreate(p, bufnr, line, col) ==
  LET call(v) == [op |-> "update_cursor", arg |-> bufnr, line |-> line,
                  col |-> col, val |-> v]
      ev == CursorMove(bufnr, line, col)
      session == SessionEntry(bufnr)
  IN /\ pc[p] = "idle"
     /\ IF SameCursor(session, line, col)
        THEN /\ Return(p, call(FALSE))
             /\ out' = <<>>
             /\ UNCHANGED <<sessions, rx>>
        ELSE /\ Room(session.broadcaster)
             /\ sessions' = MapPut(sessions, bufnr,
                                   [session EXCEPT !.cursor_line = line,
                                                   !.cursor_col = col])
             /\ rx' = Send(rx, session.broadcaster, ev)
             /\ out' = <<Sent(session.broadcaster, ev)>>
             /\ Return(p, call(TRUE))
     /\ UNCHANGED <<active_bufnr, client_id_counter>>

UpdateCursor(p, bufnr, line, col) ==
  LET call(v) == [op |-> "update_cursor", arg |-> bufnr, line |-> line,
                  col |-> col, val |-> v]
      ev == CursorMove(bufnr, line, col)
  IN /\ pc[p] = "idle"
     /\ IF ~Has(bufnr) \/ SameCursor(sessions[bufnr], line, col)
        THEN /\ Return(p, call(FALSE))
             /\ out' = <<>>
             /\ UNCHANGED <<sessions, rx>>
        ELSE /\ Room(sessions[bufnr].broadcaster)
             /\ sessions' = [sessions EXCEPT ![bufnr].cursor_line = line,
                                             ![bufnr].cursor_col = col]
             /\ rx' = Send(rx, sessions[bufnr].broadcaster, ev)
             /\ out' = <<Sent(sessions[bufnr].broadcaster, ev)>>
             /\ Return(p, call(TRUE))
     /\ UNCHANGED <<active_bufnr, client_id_counter>>

\* ----------------------------------------------------------- read accessors
\* What each accessor returns in the current state (it holds the read lock).
has_session(bufnr) == Has(bufnr)

SnapshotResponse(session) ==
  [bufnr |-> session.bufnr, html |-> session.html,
   cursor_line |-> session.cursor_line, cursor_col |-> session.cursor_col,
   filename |-> FileName(session.source_path)]

snapshot_for(bufnr) ==
  IF Has(bufnr) /\ sessions[bufnr].state # "Stopped"
  THEN Some(SnapshotResponse(sessions[bufnr]))
  ELSE None

session_count == Cardinality(DOMAIN sessions)

\* A call of an accessor, by a request handler or by the plugin: one critical
\* section, which changes nothing.
Observe(call) ==
  /\ ret' = call
  /\ out' = <<>>
  /\ UNCHANGED <<sessions, active_bufnr, rx, client_id_counter, pc, local>>

HasSession(bufnr) ==
  Observe([op |-> "has_session", arg |-> bufnr, val |-> has_session(bufnr)])

SnapshotFor(bufnr) ==
  Observe([op |-> "snapshot", arg |-> bufnr, val |-> snapshot_for(bufnr)])

SessionCount == Observe([op |-> "session_count", val |-> session_count])

ActiveBufnr == Observe([op |-> "active_bufnr", val |-> active_bufnr])

\* ------------------------------------------------- event streams (/events)
\* events: take a client id, subscribe; without a Session the answer is 404.
\* A new receiver gets the events sent after it subscribed.
EventsOpen(bufnr) ==
  LET client_id == client_id_counter
  IN /\ client_id_counter <= MaxClients
     /\ client_id_counter' = client_id_counter + 1
     /\ IF Has(bufnr) /\ sessions[bufnr].state # "Stopped"
        THEN /\ sessions' = [sessions EXCEPT ![bufnr].subscribers = @ \cup {client_id}]
             /\ rx' = MapPut(rx, client_id,
                             [bufnr |-> bufnr, hub |-> sessions[bufnr].broadcaster,
                              queue |-> <<>>, stalled |-> FALSE])
             /\ ret' = [op |-> "subscribe", arg |-> bufnr, val |-> TRUE]
        ELSE /\ ret' = [op |-> "subscribe", arg |-> bufnr, val |-> FALSE]
             /\ UNCHANGED <<sessions, rx>>
     /\ out' = <<>>
     /\ UNCHANGED <<active_bufnr, pc, local>>

\* rx.recv() returns the oldest event the receiver holds; the stream yields it.
EventsRecv(c) ==
  /\ c \in DOMAIN rx
  /\ rx[c].queue # <<>>
  /\ rx' = [rx EXCEPT ![c].queue = Tail(@)]
  /\ ret' = NoCall
  /\ out' = <<>>
  /\ UNCHANGED <<sessions, active_bufnr, client_id_counter, pc, local>>

\* recv() returns Closed (no Sender is left and nothing is queued): the loop
\* breaks, the stream unsubscribes and ends.
EventsClosed(c) ==
  /\ c \in DOMAIN rx
  /\ rx[c].queue = <<>>
  /\ ~SenderAlive(rx[c].hub)
  /\ sessions' = IF Has(rx[c].bufnr)
                 THEN [sessions EXCEPT ![rx[c].bufnr].subscribers = @ \ {c}]
                 ELSE sessions
  /\ rx' = MapDel(rx, c)
  /\ ret' = NoCall
  /\ out' = <<>>
  /\ UNCHANGED <<active_bufnr, client_id_counter, pc, local>>

\* The viewer disconnects: the stream is dropped where it is suspended, in
\* the loop, and the receiver with it; the code after the loop does not run.
EventsDisconnect(c) ==
  /\ c \in DOMAIN rx
  /\ rx' = MapDel(rx, c)
  /\ ret' = NoCall
  /\ out' = <<>>
  /\ UNCHANGED <<sessions, active_bufnr, client_id_counter, pc, local>>

\* A heartbeat that would go through the hub, to every stream open on it.
EventsHeartbeatOnHub(c) ==
  /\ c \in DOMAIN rx
  /\ rx' = Send(rx, rx[c].hub, Heartbeat(rx[c].bufnr))
  /\ ret' = [op |-> "heartbeat", client |-> c, event |-> Heartbeat(rx[c].bufnr)]
  /\ out' = <<Sent(rx[c].hub, Heartbeat(rx[c].bufnr))>>
  /\ UNCHANGED <<sessions, active_bufnr, client_id_counter, pc, local>>

\* heartbeat_interval.tick() completes (the first tick at once, the later ones
\* as time passes, whatever the receiver holds): the stream yields a Heartbeat
\* for its document.  The event is built in the stream and goes nowhere else.
EventsHeartbeat(c) ==
  /\ c \in DOMAIN rx
  /\ ret' = [op |-> "heartbeat", client |-> c, event |-> Heartbeat(rx[c].bufnr)]
  /\ out' = <<>>
  /\ UNCHANGED <<sessions, active_bufnr, rx, client_id_counter, pc, local>>

\* ------------------------------------------------------------ specifications
\* The lifecycle scenario: two tasks start and stop the Sessions of two
\* documents and stop them all, while a viewer opens, reads and leaves a
\* stream.
Next ==
  \/ \E p \in Tasks, snapshot \in Snapshots : StartSession(p, snapshot) /\ GateIdle
  \/ \E p \in Tasks : StartSetActive(p) /\ GateIdle
  \/ \E p \in Tasks, b \in Docs, reason \in WipeoutReasons : StopSession(p, b, reason) /\ GateIdle
  \/ \E p \in Tasks : StopSessionActive(p) /\ GateIdle
  \/ \E p \in Tasks, reason \in Reasons : StopAll(p, reason) /\ GateIdle
  \/ \E p \in Tasks : StopAllSend(p) /\ GateIdle
  \/ \E p \in Tasks : StopAllActive(p) /\ GateIdle
  \/ \E b \in Docs : client_id_counter <= MaxRaceClients /\ EventsOpen(b) /\ GateIdle
  \/ \E c \in DOMAIN rx : EventsRecv(c) /\ GateIdle
  \/ \E c \in DOMAIN rx : EventsClosed(c) /\ GateIdle
  \/ \E c \in DOMAIN rx : EventsDisconnect(c) /\ GateIdle

Spec == Init /\ [][Next]_vars

\* The stream scenario: one task starts, stops and pauses the Sessions of two
\* documents and stops them all, while request handlers ask for Sessions and
\* viewers open, read and leave streams.
StreamNext ==
  \/ \E p \in StreamTasks, snapshot \in Snapshots : StartSession(p, snapshot) /\ GateIdle
  \/ \E p \in StreamTasks : StartSetActive(p) /\ GateIdle
  \/ \E p \in StreamTasks, b \in Docs, reason \in Reasons : StopSession(p, b, reason) /\ GateIdle
  \/ \E p \in StreamTasks : StopSessionActive(p) /\ GateIdle
  \/ \E p \in StreamTasks, reason \in StopAllReasons : StopAll(p, reason) /\ GateIdle
  \/ \E p \in StreamTasks : StopAllSend(p) /\ GateIdle
  \/ \E p \in StreamTasks : StopAllActive(p) /\ GateIdle
  \/ \E p \in StreamTasks, b \in Docs : PauseSession(p, b) /\ GateIdle
  \/ \E b \in Docs : HasSession(b) /\ GateIdle
  \/ \E b \in Docs : EventsOpen(b) /\ GateIdle
  \/ \E c \in DOMAIN rx : EventsRecv(c) /\ GateIdle
  \/ \E c \in DOMAIN rx : EventsClosed(c) /\ GateIdle
  \/ \E c \in DOMAIN rx : EventsDisconnect(c) /\ GateIdle

SpecStreams == Init /\ [][StreamNext]_vars

\* The content scenario: two tasks work on the Session of one document.
ContentNext ==
  \/ \E p \in Tasks, snapshot \in ContentSnapshots : StartSession(p, snapshot) /\ GateIdle
  \/ \E p \in Tasks : StartSetActive(p) /\ GateIdle
  \/ \E p \in Tasks, b \in ContentDocs : StopSession(p, b, "Stopped") /\ GateIdle
  \/ \E p \in Tasks : StopSessionActive(p) /\ GateIdle
  \/ \E p \in Tasks, b \in ContentDocs : PauseSession(p, b) /\ GateIdle
  \/ \E p \in Tasks, b \in ContentDocs : ResumeSession(p, b) /\ GateIdle
  \/ \E p \in Tasks : ResumeSetActive(p) /\ GateIdle
  \/ \E p \in Tasks, snapshot \in ContentSnapshots : UpdateContentRead(p, snapshot) /\ GateIdle
  \/ \E p \in Tasks : UpdateContentWrite(p) /\ GateIdle
  \/ \E p \in Tasks, snapshot \in ContentSnapshots : RerenderContent(p, snapshot) /\ GateIdle
  \/ \E p \in Tasks, b \in ContentDocs, line \in CursorLines, col \in CursorCols :
       UpdateCursor(p, b, line, col) /\ GateIdle
  \/ \E b \in ContentDocs : HasSession(b) /\ GateIdle
  \/ \E b \in ContentDocs : SnapshotFor(b) /\ GateIdle
  \/ SessionCount /\ GateIdle
  \/ ActiveBufnr /\ GateIdle

SpecContent == Init /\ [][ContentNext]_vars

\* The duplicate-update scenario: the document has a Session (started with
\* one snapshot, running or paused, its cursor anywhere, with one viewer
\* listening, who does not read during the scenario), and every task of DupTasks is about to call
\* update_content with one and the same snapshot, which the Session does not
\* record yet.  The argument of the call to come is in local[p].todo.
DupHub == [doc |-> 1, gen |-> 0]

DupInit ==
  \E first \in ContentSnapshots, state \in {"Running", "Paused"},
     line \in CursorLines, col \in CursorCols, snapshot \in ContentSnapshots :
    LET session ==
          [Started(SessionNew(1, DupHub), first, content_hash(first.markdown),
                   render(first.markdown))
             EXCEPT !.state = state, !.cursor_line = line, !.cursor_col = col,
                    !.subscribers = {1}]
    IN /\ \/ session.changedtick # snapshot.changedtick
          \/ session.content_hash # content_hash(snapshot.markdown)
       /\ sessions = MapPut(<<>>, 1, session)
       /\ active_bufnr = Some(1)
       /\ rx = MapPut(<<>>, 1, [bufnr |-> 1, hub |-> DupHub, queue |-> <<>>,
                                stalled |-> FALSE])
       /\ client_id_counter = 2
       /\ pc = [p \in AllTasks |-> "idle"]
       /\ local = [p \in AllTasks |->
                     IF p \in DupTasks THEN [bufnr |-> 0, todo |-> snapshot]
                     ELSE NoLocal]
       /\ ret = NoCall
       /\ out = <<>>
       /\ GateNew

DupCall(p) ==
  /\ "todo" \in DOMAIN local[p]
  /\ UpdateContentRead(p, local[p].todo)

DupNext ==
  \/ \E p \in DupTasks : DupCall(p) /\ GateIdle
  \/ \E p \in DupTasks : UpdateContentWrite(p) /\ GateIdle

SpecDup == DupInit /\ [][DupNext]_vars

\* The viewer scenario: one task starts and stops the Session of one document,
\* and moves its cursor, while viewers open, read and leave streams and their
\* heartbeat timers tick.
ViewerSnapshots == {Snapshot(1, 1, <<"a">>, 1, 0, None)}

ViewerNext ==
  \/ \E p \in StreamTasks, snapshot \in ViewerSnapshots : StartSession(p, snapshot) /\ GateIdle
  \/ \E p \in StreamTasks : StartSetActive(p) /\ GateIdle
  \/ \E p \in StreamTasks, b \in ContentDocs : StopSession(p, b, "Stopped") /\ GateIdle
  \/ \E p \in StreamTasks : StopSessionActive(p) /\ GateIdle
  \/ \E p \in StreamTasks, reason \in WipeoutReasons : StopAll(p, reason) /\ GateIdle
  \/ \E p \in StreamTasks : StopAllSend(p) /\ GateIdle
  \/ \E p \in StreamTasks : StopAllActive(p) /\ GateIdle
  \/ \E p \in StreamTasks, b \in ContentDocs, col \in CursorCols :
       UpdateCursor(p, b, 1, col) /\ GateIdle
  \/ \E b \in ContentDocs : EventsOpen(b) /\ GateIdle
  \/ \E c \in DOMAIN rx : EventsRecv(c) /\ GateIdle
  \/ \E c \in DOMAIN rx : EventsClosed(c) /\ GateIdle
  \/ \E c \in DOMAIN rx : EventsDisconnect(c) /\ GateIdle
  \/ \E c \in DOMAIN rx : EventsHeartbeat(c) /\ GateIdle

SpecViewers == Init /\ [][ViewerNext]_vars

\* The same scenario under the scheduling the runtime gives: a task that can
\* take its next step takes it (the locks are fair and never held across a
\* wait), and a stream whose channel is closed and empty is polled and ends.
ViewerFairness ==
  /\ \A p \in StreamTasks :
       /\ WF_vars(StopSessionActive(p) /\ GateIdle)
       /\ WF_vars(StopAllSend(p) /\ GateIdle)
       /\ WF_vars(StopAllActive(p) /\ GateIdle)
  /\ \A c \in 1..MaxClients : WF_vars(EventsClosed(c) /\ GateIdle)

FairViewers == Init /\ [][ViewerNext]_vars /\ ViewerFairness

\* The stop-race scenario: two tasks start and stop the Session of one
\* document and update, render again and move the cursor of it, while a
\* viewer opens and reads a stream and a request handler asks for the
\* snapshot.
RaceSnapshots ==
  { Snapshot(1, 1, <<"a">>, 1, 0, None),
    Snapshot(1, 2, <<"<">>, 1, 1, None) }
\* The snapshots the content operations are called with: those, and one of
\* document 2, which is never started in this scenario.
RaceUpdates == RaceSnapshots \cup {Snapshot(2, 1, <<"a">>, 1, 0, None)}

RaceNext ==
  \/ \E p \in Tasks, snapshot \in RaceSnapshots : StartSession(p, snapshot) /\ GateIdle
  \/ \E p \in Tasks : StartSetActive(p) /\ GateIdle
  \/ \E p \in Tasks, b \in Docs : StopSession(p, b, "Stopped") /\ GateIdle
  \/ \E p \in Tasks : StopSessionActive(p) /\ GateIdle
  \/ \E p \in Tasks, snapshot \in RaceUpdates : UpdateContentRead(p, snapshot) /\ GateIdle
  \/ \E p \in Tasks : UpdateContentWrite(p) /\ GateIdle
  \/ \E p \in Tasks, snapshot \in RaceUpdates : RerenderContent(p, snapshot) /\ GateIdle
  \/ \E p \in Tasks, b \in Docs, col \in CursorCols : UpdateCursor(p, b, 1, col) /\ GateIdle
  \/ \E b \in Docs : SnapshotFor(b) /\ GateIdle
  \/ \E b \in Docs : client_id_counter <= MaxRaceClients /\ EventsOpen(b) /\ GateIdle
  \/ \E c \in DOMAIN rx : EventsRecv(c) /\ GateIdle
  \/ \E c \in DOMAIN rx : EventsClosed(c) /\ GateIdle

SpecRace == Init /\ [][RaceNext]_vars

\* The life-cycle scenario: two tasks start, pause, resume and stop the
\* Session of one document and stop all Sessions, while a viewer opens and
\* reads a stream.
LifeNext ==
  \/ \E p \in Tasks, snapshot \in ViewerSnapshots : StartSession(p, snapshot) /\ GateIdle
  \/ \E p \in Tasks : StartSetActive(p) /\ GateIdle
  \/ \E p \in Tasks, b \in ContentDocs : StopSession(p, b, "Stopped") /\ GateIdle
  \/ \E p \in Tasks : StopSessionActive(p) /\ GateIdle
  \/ \E p \in Tasks, reason \in WipeoutReasons : StopAll(p, reason) /\ GateIdle
  \/ \E p \in Tasks : StopAllSend(p) /\ GateIdle
  \/ \E p \in Tasks : StopAllActive(p) /\ GateIdle
  \/ \E p \in Tasks, b \in ContentDocs : PauseSession(p, b) /\ GateIdle
  \/ \E p \in Tasks, b \in ContentDocs : ResumeSession(p, b) /\ GateIdle
  \/ \E p \in Tasks : ResumeSetActive(p) /\ GateIdle
  \/ \E b \in ContentDocs : client_id_counter <= MaxRaceClients /\ EventsOpen(b) /\ GateIdle
  \/ \E c \in DOMAIN rx : EventsRecv(c) /\ GateIdle
  \/ \E c \in DOMAIN rx : EventsClosed(c) /\ GateIdle

SpecLife == Init /\ [][LifeNext]_vars

\* The backlog scenario: document 1 has a Running Session, either without a
\* viewer or with two, of which viewer 1 keeps reading and viewer 2 has
\* stalled.  One task moves the cursor to and fro, which fills the stalled
\* receiver up to the capacity of the channel and beyond.  When the stalled
\* receiver is full of cursor moves (or when there is none), the task also
\* starts, updates, renders again, stops and stops all; the stalled viewer
\* reads an event now and then when its receiver is full, and reads on when the
\* channel is closed.
LagHub == [doc |-> 1, gen |-> 0]

LagInit ==
  \E viewers \in BOOLEAN, first \in ViewerSnapshots :
    LET session ==
          [Started(SessionNew(1, LagHub), first, content_hash(first.markdown),
                   render(first.markdown))
             EXCEPT !.subscribers = IF viewers THEN {1, 2} ELSE {}]
        receiver(st) == [bufnr |-> 1, hub |-> LagHub, queue |-> <<>>, stalled |-> st]
    IN /\ sessions = MapPut(<<>>, 1, session)
       /\ active_bufnr = Some(1)
       /\ rx = IF viewers
               THEN MapPut(MapPut(<<>>, 1, receiver(FALSE)), 2, receiver(TRUE))
               ELSE <<>>
       /\ client_id_counter = IF viewers THEN 3 ELSE 1
       /\ pc = [p \in AllTasks |-> "idle"]
       /\ local = [p \in AllTasks |-> NoLocal]
       /\ ret = NoCall
       /\ out = <<>>
       /\ GateNew

\* Every stalled receiver is full, of cursor moves only.
LagQuiet ==
  \A c \in DOMAIN rx :
    rx[c].stalled =>
      /\ Len(rx[c].queue) = EVENT_CHANNEL_CAPACITY
      /\ \A i \in 1..Len(rx[c].queue) : rx[c].queue[i].type = "cursor_move"

\* When the viewer of stream c reads.
LagReads(c) ==
  rx[c].stalled =>
    \/ Len(rx[c].queue) = EVENT_CHANNEL_CAPACITY
    \/ ~SenderAlive(rx[c].hub)

LagNext ==
  \/ \E p \in StreamTasks, b \in ContentDocs, col \in CursorCols :
       UpdateCursor(p, b, 1, col) /\ GateIdle
  \/ \E p \in StreamTasks, snapshot \in RaceSnapshots :
       LagQuiet /\ StartSession(p, snapshot) /\ GateIdle
  \/ \E p \in StreamTasks : StartSetActive(p) /\ GateIdle
  \/ \E p \in StreamTasks, snapshot \in RaceSnapshots :
       LagQuiet /\ UpdateContentRead(p, snapshot) /\ GateIdle
  \/ \E p \in StreamTasks : UpdateContentWrite(p) /\ GateIdle
  \/ \E p \in StreamTasks, snapshot \in RaceSnapshots :
       LagQuiet /\ RerenderContent(p, snapshot) /\ GateIdle
  \/ \E p \in StreamTasks, b \in ContentDocs :
       LagQuiet /\ StopSession(p, b, "Stopped") /\ GateIdle
  \/ \E p \in StreamTasks : StopSessionActive(p) /\ GateIdle
  \/ \E p \in StreamTasks, reason \in WipeoutReasons : LagQuiet /\ StopAll(p, reason) /\ GateIdle
  \/ \E p \in StreamTasks : StopAllSend(p) /\ GateIdle
  \/ \E p \in StreamTasks : StopAllActive(p) /\ GateIdle
  \/ \E c \in DOMAIN rx : LagReads(c) /\ EventsRecv(c) /\ GateIdle
  \/ \E c \in DOMAIN rx : EventsClosed(c) /\ GateIdle

SpecLag == LagInit /\ [][LagNext]_vars

\* ================================================================= the gate
\* AutocmdGate (plugin/autocmd.rs): the plugin asks it before it passes a
\* text change or a cursor move on to the SessionManager.
\*
\* The widths of the two windows, in ticks of the clock.  The plugin builds
\* the gate from debounce_ms_content and throttle_ms_cursor of its config.
content_window == 2
cursor_window == 1

\* The clock stops here.
MaxTime == 4

\* Instant::duration_since, which saturates at zero.
duration_since(later, earlier) == IF later >= earlier THEN later - earlier ELSE 0

\* A content gate that would measure its window with the cursor's interval.
ContentWithinCursorWindow(state, bufnr, at) ==
  /\ state.last_content_emit # None
  /\ state.last_content_emit[1].bufnr = bufnr
  /\ duration_since(at, state.last_content_emit[1].at) < cursor_window

\* The first arm of the match of allow_content_emit: the slot holds this
\* document, and less than a window has passed since.
ContentWithinWindow(state, bufnr, at) ==
  /\ state.last_content_emit # None
  /\ state.last_content_emit[1].bufnr = bufnr
  /\ duration_since(at, state.last_content_emit[1].at) < content_window

\* What allow_content_emit returns.
allow_content_emit(state, bufnr, at) == ~ContentWithinWindow(state, bufnr, at)

\* A gate that would start the window anew at every call, allowed or not.
ContentEmittedAlways(state, bufnr, at) ==
  [state EXCEPT !.last_content_emit = Some([bufnr |-> bufnr, at |-> at])]

\* The GateState allow_content_emit leaves.
ContentEmitted(state, bufnr, at) ==
  IF allow_content_emit(state, bufnr, at)
  THEN [state EXCEPT !.last_content_emit = Some([bufnr |-> bufnr, at |-> at])]
  ELSE state

\* The first test of allow_cursor_emit: the slot holds this document and
\* this line.
CursorDuplicate(state, bufnr, line) ==
  /\ state.last_cursor_emit # None
  /\ state.last_cursor_emit[1].bufnr = bufnr
  /\ state.last_cursor_emit[1].line = line

\* let allow_time = match state.last_cursor_emit { ... }
allow_time(state, bufnr, at) ==
  IF state.last_cursor_emit # None /\ state.last_cursor_emit[1].bufnr = bufnr
  THEN duration_since(at, state.last_cursor_emit[1].at) >= cursor_window
  ELSE TRUE

\* What allow_cursor_emit returns.
allow_cursor_emit(state, bufnr, line, at) ==
  ~CursorDuplicate(state, bufnr, line) /\ allow_time(state, bufnr, at)

\* The GateState allow_cursor_emit leaves.
CursorEmitted(state, bufnr, line, at) ==
  IF allow_cursor_emit(state, bufnr, line, at)
  THEN [state EXCEPT
          !.last_cursor_emit = Some([bufnr |-> bufnr, at |-> at, line |-> line])]
  ELSE state

\* A clear that would empty both slots, whichever document they hold.
clear_buffer_any(state, bufnr) ==
  [last_content_emit |-> None, last_cursor_emit |-> None]

\* The GateState clear_buffer leaves: a slot is emptied if it holds bufnr.
clear_buffer(state, bufnr) ==
  [last_content_emit |->
     IF state.last_content_emit # None /\ state.last_content_emit[1].bufnr = bufnr
     THEN None ELSE state.last_content_emit,
   last_cursor_emit |->
     IF state.last_cursor_emit # None /\ state.last_cursor_emit[1].bufnr = bufnr
     THEN None ELSE state.last_cursor_emit]

\* let now = Instant::now(): the first statement of allow_content_emit, before
\* the mutex is asked for.  todo is the snapshot on_text_changed passes on to
\* update_content when the gate allows it (None: the gate is called alone).
AllowContentEmitNow(p, bufnr, todo) ==
  /\ pc[p] = "idle"
  /\ "todo" \notin DOMAIN local[p]
  /\ Goto(p, "gate_lock",
          [op |-> "allow_content_emit", bufnr |-> bufnr, now |-> now, todo |-> todo])
  /\ out' = <<>>
  /\ UNCHANGED <<sessions, active_bufnr, rx, client_id_counter>>
  /\ GateIdle

\* allow_content_emit under the mutex.  An allowed text change leaves the
\* snapshot in local[p].todo, for the update_content that follows.
AllowContentEmit(p) ==
  /\ pc[p] = "gate_lock"
  /\ local[p].op = "allow_content_emit"
  /\ LET call == local[p]
         allowed == allow_content_emit(autocmd, call.bufnr, call.now)
     IN /\ autocmd' = ContentEmitted(autocmd, call.bufnr, call.now)
        /\ last_allowed' =
             IF allowed
             THEN [last_allowed EXCEPT !.content[call.bufnr] = Some(call.now)]
             ELSE last_allowed
        /\ pc' = [pc EXCEPT ![p] = "idle"]
        /\ local' = [local EXCEPT ![p] =
                       IF allowed /\ call.todo # None
                       THEN [bufnr |-> 0, todo |-> call.todo[1]]
                       ELSE NoLocal]
        /\ ret' = [op |-> "allow_content_emit", bufnr |-> call.bufnr,
                   at |-> call.now, todo |-> call.todo, val |-> allowed]
  /\ out' = <<>>
  /\ UNCHANGED <<sessions, active_bufnr, rx, client_id_counter, now, runtime>>

\* on_text_changed: the gate, then update_content if it allowed.
OnTextChanged(p, snapshot) == AllowContentEmitNow(p, snapshot.bufnr, Some(snapshot))

OnTextChangedUpdate(p) ==
  /\ pc[p] = "idle"
  /\ "todo" \in DOMAIN local[p]
  /\ "markdown" \in DOMAIN local[p].todo
  /\ UpdateContentRead(p, local[p].todo)
  /\ GateIdle

\* let now = Instant::now() of allow_cursor_emit.
AllowCursorEmitNow(p, bufnr, line) ==
  /\ pc[p] = "idle"
  /\ "todo" \notin DOMAIN local[p]
  /\ Goto(p, "gate_lock",
          [op |-> "allow_cursor_emit", bufnr |-> bufnr, line |-> line, now |-> now])
  /\ out' = <<>>
  /\ UNCHANGED <<sessions, active_bufnr, rx, client_id_counter>>
  /\ GateIdle

\* allow_cursor_emit under the mutex.  An allowed cursor move of
\* on_cursor_moved is left in local[p].todo, for the update_cursor that
\* follows.
AllowCursorEmit(p) ==
  /\ pc[p] = "gate_lock"
  /\ local[p].op = "allow_cursor_emit"
  /\ LET call == local[p]
         allowed == allow_cursor_emit(autocmd, call.bufnr, call.line, call.now)
     IN /\ autocmd' = CursorEmitted(autocmd, call.bufnr, call.line, call.now)
        /\ last_allowed' =
             IF allowed
             THEN [last_allowed EXCEPT
                     !.cursor[call.bufnr] = Some([at |-> call.now, line |-> call.line])]
             ELSE last_allowed
        /\ pc' = [pc EXCEPT ![p] = "idle"]
        /\ local' = [local EXCEPT ![p] =
                       IF allowed /\ "col" \in DOMAIN call
                       THEN [bufnr |-> 0,
                             todo |-> [bufnr |-> call.bufnr, line |-> call.line,
                                       col |-> call.col]]
                       ELSE NoLocal]
        /\ ret' = [op |-> "allow_cursor_emit", bufnr |-> call.bufnr,
                   line |-> call.line, at |-> call.now, val |-> allowed]
  /\ out' = <<>>
  /\ UNCHANGED <<sessions, active_bufnr, rx, client_id_counter, now, runtime>>

\* on_cursor_moved: the gate, then update_cursor if it allowed.
OnCursorMoved(p, bufnr, line, col) ==
  /\ pc[p] = "idle"
  /\ "todo" \notin DOMAIN local[p]
  /\ Goto(p, "gate_lock",
          [op |-> "allow_cursor_emit", bufnr |-> bufnr, line |-> line,
           now |-> now, col |-> col])
  /\ out' = <<>>
  /\ UNCHANGED <<sessions, active_bufnr, rx, client_id_counter>>
  /\ GateIdle

OnCursorMovedUpdate(p) ==
  /\ pc[p] = "idle"
  /\ "todo" \in DOMAIN local[p]
  /\ "col" \in DOMAIN local[p].todo
  /\ UpdateCursor(p, local[p].todo.bufnr, local[p].todo.line, local[p].todo.col)
  /\ GateIdle

\* clear_buffer: one critical section of the mutex.
ClearBuffer(p, bufnr) ==
  /\ pc[p] = "idle"
  /\ "todo" \notin DOMAIN local[p]
  /\ autocmd' = clear_buffer(autocmd, bufnr)
  /\ last_allowed' = [last_allowed EXCEPT !.content[bufnr] = None,
                                          !.cursor[bufnr] = None]
  /\ Return(p, [op |-> "clear_buffer", bufnr |-> bufnr])
  /\ out' = <<>>
  /\ UNCHANGED <<sessions, active_bufnr, rx, client_id_counter, now, runtime>>

\* Time passes.
Tick ==
  /\ now < MaxTime
  /\ now' = now + 1
  /\ ret' = NoCall
  /\ out' = <<>>
  /\ UNCHANGED <<sessions, active_bufnr, rx, client_id_counter, pc, local,
                 autocmd, last_allowed, runtime>>

\* The one-document scenario of the gate: two tasks ask the gate about text
\* changes and cursor moves of document 1, while time passes.
GateOneNext ==
  \/ \E p \in Tasks, b \in ContentDocs : AllowContentEmitNow(p, b, None)
  \/ \E p \in Tasks : AllowContentEmit(p)
  \/ \E p \in Tasks, b \in ContentDocs, line \in CursorLines :
       AllowCursorEmitNow(p, b, line)
  \/ \E p \in Tasks : AllowCursorEmit(p)
  \/ Tick

SpecGateOne == Init /\ [][GateOneNext]_vars

\* The gate scenario: one task asks the gate about text changes and cursor
\* moves of two documents and clears them, while time passes.
GateNext ==
  \/ \E p \in StreamTasks, b \in Docs : AllowContentEmitNow(p, b, None)
  \/ \E p \in StreamTasks : AllowContentEmit(p)
  \/ \E p \in StreamTasks, b \in Docs, line \in CursorLines :
       AllowCursorEmitNow(p, b, line)
  \/ \E p \in StreamTasks : AllowCursorEmit(p)
  \/ \E p \in StreamTasks, b \in Docs : ClearBuffer(p, b)
  \/ Tick

SpecGate == Init /\ [][GateNext]_vars

\* The burst scenario: document 1 has a Session, and the editor reports a
\* burst of text changes of it, one after the other; each is handled by a task
\* of its own, which asks the gate and then calls update_content, while time
\* passes.  The event a task has yet to handle is in local[p].event.
BurstEvents ==
  << Snapshot(1, 2, <<"<">>, 1, 1, None),
     Snapshot(1, 3, <<"a", "&">>, 2, 0, None) >>

BurstHub == [doc |-> 1, gen |-> 0]

BurstInit ==
  \E first \in ContentSnapshots, state \in {"Running", "Paused"} :
    LET session ==
          [Started(SessionNew(1, BurstHub), first, content_hash(first.markdown),
                   render(first.markdown))
             EXCEPT !.state = state]
    IN /\ sessions = MapPut(<<>>, 1, session)
       /\ active_bufnr = Some(1)
       /\ rx = <<>>
       /\ client_id_counter = 1
       /\ pc = [p \in AllTasks |-> "idle"]
       /\ local = [p \in AllTasks |->
                     IF p \in DOMAIN BurstEvents
                     THEN [bufnr |-> 0, event |-> BurstEvents[p]]
                     ELSE NoLocal]
       /\ ret = NoCall
       /\ out = <<>>
       /\ GateNew

\* The handler of event p is called once the handlers of the events before
\* it have been called.
BurstCall(p) ==
  /\ "event" \in DOMAIN local[p]
  /\ \A q \in 1..(p - 1) : "event" \notin DOMAIN local[q]
  /\ OnTextChanged(p, local[p].event)

BurstNext ==
  \/ \E p \in DOMAIN BurstEvents : BurstCall(p)
  \/ \E p \in DOMAIN BurstEvents : AllowContentEmit(p)
  \/ \E p \in DOMAIN BurstEvents : OnTextChangedUpdate(p)
  \/ \E p \in DOMAIN BurstEvents : UpdateContentWrite(p) /\ GateIdle
  \/ Tick

SpecBurst == BurstInit /\ [][BurstNext]_vars

\* The editing scenario: document 1 has a Session, started with the cursor on
\* line 1.  The editor then reports, in this order, that the cursor moved to
\* line 2 and back to line 1, that the text changed there, and that the cursor
\* moved to line 2 again.  Each report is handled by a task of its own, while
\* time passes.
CursorMoved(b, line, col) ==
  [kind |-> "CursorMoved", bufnr |-> b, line |-> line, col |-> col]

TextChanged(snapshot) == [kind |-> "TextChanged", snapshot |-> snapshot]

EditorEvents ==
  << CursorMoved(1, 2, 0),
     CursorMoved(1, 1, 0),
     TextChanged(Snapshot(1, 2, <<"a", "&">>, 1, 0, None)),
     CursorMoved(1, 2, 0) >>

EditorInit ==
  LET first == Snapshot(1, 1, <<"a">>, 1, 0, None)
      session == Started(SessionNew(1, BurstHub), first,
                         content_hash(first.markdown), render(first.markdown))
  IN /\ sessions = MapPut(<<>>, 1, session)
     /\ active_bufnr = Some(1)
     /\ rx = <<>>
     /\ client_id_counter = 1
     /\ pc = [p \in AllTasks |-> "idle"]
     /\ local = [p \in AllTasks |->
                   IF p \in EditorTasks
                   THEN [bufnr |-> 0, event |-> EditorEvents[p]]
                   ELSE NoLocal]
     /\ ret = NoCall
     /\ out = <<>>
     /\ GateNew

\* The handler of report p is called once the handlers of the reports before
\* it have been called.
EditorCall(p) ==
  /\ "event" \in DOMAIN local[p]
  /\ \A q \in 1..(p - 1) : "event" \notin DOMAIN local[q]
  /\ LET event == local[p].event
     IN IF event.kind = "CursorMoved"
        THEN OnCursorMoved(p, event.bufnr, event.line, event.col)
        ELSE OnTextChanged(p, event.snapshot)

EditorNext ==
  \/ \E p \in EditorTasks : EditorCall(p)
  \/ \E p \in EditorTasks : AllowCursorEmit(p)
  \/ \E p \in EditorTasks : OnCursorMovedUpdate(p)
  \/ \E p \in EditorTasks : AllowContentEmit(p)
  \/ \E p \in EditorTasks : OnTextChangedUpdate(p)
  \/ \E p \in EditorTasks : UpdateContentWrite(p) /\ GateIdle
  \/ Tick

SpecEditor == EditorInit /\ [][EditorNext]_vars

\* ------------------------------------------------------ the plugin's previews
\* start_preview, stop_preview, toggle_preview and on_buf_wipeout of
\* MarkdownRenderPlugin, statement by statement: each call of the server, the
\* store and the gate is a step (start_session and stop_session two, as they
\* take two locks one after the other).

\* The address bind_listener returns with ServerConfig::default; the listener
\* is taken to bind.
BoundAddr == [ip |-> "127.0.0.1", port |-> "config.port"]

\* ServerController::ensure_running under the server's mutex: the runtime it
\* leaves.
ensure_running(rt) == IF rt.addr # None THEN rt ELSE [addr |-> Some(BoundAddr)]

\* ServerController::stop under the server's mutex.
server_stop(rt) == [addr |-> None]

\* SessionManager::session_token: the token of the document's Session, none
\* if it has no Session.
session_token(bufnr) ==
  IF Has(bufnr) THEN Some([token |-> sessions[bufnr].broadcaster]) ELSE None

\* let url = format!("http://{}:{}/?token={}&buf={}", ...)
PreviewUrl(address, bufnr) == [addr |-> address, buf |-> bufnr]

\* A toggle that would start a preview whatever it finds.
ToggleStartsAlways(token) == FALSE

\* if self.sessions.session_token(snapshot.bufnr).await.is_some()
ToggleStops(token) == token # None

\* start_preview: let addr = self.server.ensure_running().await?
StartPreview(p, snapshot) ==
  /\ pc[p] = "idle"
  /\ "todo" \notin DOMAIN local[p]
  /\ runtime' = ensure_running(runtime)
  /\ Goto(p, "preview_start",
          [op |-> "start_preview", bufnr |-> snapshot.bufnr,
           snapshot |-> snapshot, addr |-> runtime'.addr[1]])
  /\ out' = <<>>
  /\ UNCHANGED <<sessions, active_bufnr, rx, client_id_counter,
                 autocmd, now, last_allowed>>

\* toggle_preview: the test of session_token, which sends it to stop_preview
\* or to start_preview.
TogglePreview(p, snapshot) ==
  /\ pc[p] = "idle"
  /\ "todo" \notin DOMAIN local[p]
  /\ IF ToggleStops(session_token(snapshot.bufnr))
     THEN Goto(p, "preview_stop",
               [op |-> "toggle_preview", bufnr |-> snapshot.bufnr,
                reason |-> "Stopped"])
     ELSE Goto(p, "preview_ensure",
               [op |-> "toggle_preview", bufnr |-> snapshot.bufnr,
                snapshot |-> snapshot])
  /\ out' = <<>>
  /\ UNCHANGED <<sessions, active_bufnr, rx, client_id_counter>>
  /\ GateIdle

\* The ensure_running of the start_preview that toggle_preview calls.
ToggleEnsureRunning(p) ==
  /\ pc[p] = "preview_ensure"
  /\ runtime' = ensure_running(runtime)
  /\ Goto(p, "preview_start",
          [op |-> local[p].op, bufnr |-> local[p].bufnr,
           snapshot |-> local[p].snapshot, addr |-> runtime'.addr[1]])
  /\ out' = <<>>
  /\ UNCHANGED <<sessions, active_bufnr, rx, client_id_counter,
                 autocmd, now, last_allowed>>

\* start_session inside start_preview, up to the release of the map's lock.
PreviewStartSession(p) ==
  LET snapshot == local[p].snapshot
      b == snapshot.bufnr
      rendered_html == render(snapshot.markdown)
      hash == content_hash(snapshot.markdown)
      session == Started(SessionEntry(b), snapshot, hash, rendered_html)
      ev == RenderFull(b, rendered_html, snapshot.cursor_line)
  IN /\ pc[p] = "preview_start"
     /\ Room(session.broadcaster)
     /\ sessions' = MapPut(sessions, b, session)
     /\ rx' = Send(rx, session.broadcaster, ev)
     /\ out' = <<Sent(session.broadcaster, ev)>>
     /\ Goto(p, "preview_active", local[p])
     /\ UNCHANGED <<active_bufnr, client_id_counter>>
     /\ GateIdle

\* The write of active_bufnr by start_session; start_preview then makes the
\* url and returns it.
PreviewSetActive(p) ==
  LET url == PreviewUrl(local[p].addr, local[p].bufnr)
  IN /\ pc[p] = "preview_active"
     /\ active_bufnr' = Some(local[p].bufnr)
     /\ Return(p, [op |-> local[p].op, arg |-> local[p].bufnr,
                   val |-> IF local[p].op = "toggle_preview" THEN Some(url) ELSE url])
     /\ out' = <<>>
     /\ UNCHANGED <<sessions, rx, client_id_counter>>
     /\ GateIdle

\* stop_preview is called.
StopPreview(p, bufnr) ==
  /\ pc[p] = "idle"
  /\ "todo" \notin DOMAIN local[p]
  /\ Goto(p, "preview_stop",
          [op |-> "stop_preview", bufnr |-> bufnr, reason |-> "Stopped"])
  /\ out' = <<>>
  /\ UNCHANGED <<sessions, active_bufnr, rx, client_id_counter>>
  /\ GateIdle

\* The task of on_buf_wipeout is spawned.
OnBufWipeout(p, bufnr) ==
  /\ pc[p] = "idle"
  /\ "todo" \notin DOMAIN local[p]
  /\ Goto(p, "preview_stop",
          [op |-> "on_buf_wipeout", bufnr |-> bufnr, reason |-> "BufferClosed"])
  /\ out' = <<>>
  /\ UNCHANGED <<sessions, active_bufnr, rx, client_id_counter>>
  /\ GateIdle

\* stop_session inside stop_preview and on_buf_wipeout, under the map's lock.
PreviewStopSession(p) ==
  LET b == local[p].bufnr
  IN /\ pc[p] = "preview_stop"
     /\ IF ~Has(b)
        THEN /\ Goto(p, "preview_clear",
                     [op |-> local[p].op, bufnr |-> b, stopped |-> FALSE])
             /\ out' = <<>>
             /\ UNCHANGED <<sessions, rx>>
        ELSE LET session == [sessions[b] EXCEPT !.state = "Stopped"]
                 ev == SessionEnd(b, local[p].reason)
             IN /\ Room(session.broadcaster)
                /\ sessions' = MapDel(sessions, b)
                /\ rx' = Send(rx, session.broadcaster, ev)
                /\ out' = <<Sent(session.broadcaster, ev)>>
                /\ Goto(p, "preview_stop_active",
                        [op |-> local[p].op, bufnr |-> b, stopped |-> TRUE])
     /\ UNCHANGED <<active_bufnr, client_id_counter>>
     /\ GateIdle

\* stop_session's write of active_bufnr.
PreviewStopActive(p) ==
  /\ pc[p] = "preview_stop_active"
  /\ active_bufnr' = ClearActive(active_bufnr, local[p].bufnr)
  /\ Goto(p, "preview_clear", local[p])
  /\ out' = <<>>
  /\ UNCHANGED <<sessions, rx, client_id_counter>>
  /\ GateIdle

\* self.autocmd.clear_buffer(bufnr).await
PreviewClearBuffer(p) ==
  /\ pc[p] = "preview_clear"
  /\ autocmd' = clear_buffer(autocmd, local[p].bufnr)
  /\ last_allowed' = [last_allowed EXCEPT !.content[local[p].bufnr] = None,
                                          !.cursor[local[p].bufnr] = None]
  /\ Goto(p, "preview_count", local[p])
  /\ out' = <<>>
  /\ UNCHANGED <<sessions, active_bufnr, rx, client_id_counter, now, runtime>>

\* What the three operations return at their end.
PreviewStopped(call) ==
  [op |-> call.op, arg |-> call.bufnr,
   val |-> CASE call.op = "stop_preview" -> call.stopped
             [] call.op = "toggle_preview" -> None
             [] call.op = "on_buf_wipeout" -> "Ok"]

\* if self.sessions.session_count().await == 0: the count is read under the
\* map's read lock, the lock is released, and the server is stopped after.
PreviewSessionCount(p) ==
  /\ pc[p] = "preview_count"
  /\ IF session_count = 0
     THEN Goto(p, "preview_server_stop", local[p])
     ELSE Return(p, PreviewStopped(local[p]))
  /\ out' = <<>>
  /\ UNCHANGED <<sessions, active_bufnr, rx, client_id_counter>>
  /\ GateIdle

\* self.server.stop().await
PreviewServerStop(p) ==
  /\ pc[p] = "preview_server_stop"
  /\ runtime' = server_stop(runtime)
  /\ Return(p, PreviewStopped(local[p]))
  /\ out' = <<>>
  /\ UNCHANGED <<sessions, active_bufnr, rx, client_id_counter,
                 autocmd, now, last_allowed>>

\* The commands scenario: one task, the editor's main thread, starts, stops
\* and toggles the previews of two documents and wipes them out, one
\* operation after the other.
ToggleNext ==
  \/ \E p \in StreamTasks, snapshot \in Snapshots : StartPreview(p, snapshot)
  \/ \E p \in StreamTasks, snapshot \in Snapshots : TogglePreview(p, snapshot)
  \/ \E p \in StreamTasks, b \in Docs : StopPreview(p, b)
  \/ \E p \in StreamTasks, b \in Docs : OnBufWipeout(p, b)
  \/ \E p \in StreamTasks : ToggleEnsureRunning(p)
  \/ \E p \in StreamTasks : PreviewStartSession(p)
  \/ \E p \in StreamTasks : PreviewSetActive(p)
  \/ \E p \in StreamTasks : PreviewStopSession(p)
  \/ \E p \in StreamTasks : PreviewStopActive(p)
  \/ \E p \in StreamTasks : PreviewClearBuffer(p)
  \/ \E p \in StreamTasks : PreviewSessionCount(p)
  \/ \E p \in StreamTasks : PreviewServerStop(p)

SpecToggle == Init /\ [][ToggleNext]_vars

\* The wipeout scenario: the editor's main thread (task 1) starts and stops
\* previews with block_on, one operation after the other, while the task
\* spawned for a wiped-out buffer (task 2) runs on_buf_wipeout.
MainThread == 1
Spawned == 2

\* AppState::stop_active: stop_preview of the active document, if there is
\* one.
StopActive(p) ==
  /\ active_bufnr # None
  /\ StopPreview(p, active_bufnr[1])

\* AppState::on_buf_wipeout: the main thread spawns the task if the buffer has
\* a Session.
SpawnBufWipeout(p, bufnr) ==
  /\ pc[MainThread] = "idle"
  /\ session_token(bufnr) # None
  /\ OnBufWipeout(p, bufnr)

WipeoutNext ==
  \/ \E snapshot \in Snapshots : StartPreview(MainThread, snapshot)
  \/ StopActive(MainThread)
  \/ \E b \in Docs : SpawnBufWipeout(Spawned, b)
  \/ \E p \in Tasks : PreviewStartSession(p)
  \/ \E p \in Tasks : PreviewSetActive(p)
  \/ \E p \in Tasks : PreviewStopSession(p)
  \/ \E p \in Tasks : PreviewStopActive(p)
  \/ \E p \in Tasks : PreviewClearBuffer(p)
  \/ \E p \in Tasks : PreviewSessionCount(p)
  \/ \E p \in Tasks : PreviewServerStop(p)

SpecWipeout == Init /\ [][WipeoutNext]_vars

\* ----------------------------------------------- the map's lock, step by step
\* start_session, update_content and rerender_content once more, with the
\* taking of the map's lock, the critical section and the render as steps of
\* their own.  A task holds the lock from the step that takes it to the step
\* that ends the critical section.
\*
\* An update_content that would render inside its read-locked block.
HoldsReadWhileRendering(p) ==
  \/ pc[p] = "read_held"
  \/ pc[p] = "rendering" /\ local[p].op = "update_content"

\* The task holds the read lock (session.rs:171-178).
HoldsRead(p) == pc[p] = "read_held"

\* The task holds the write lock (session.rs:83-102, 182-204, 215-233).
HoldsWrite(p) == pc[p] = "write_held"

\* The call: update_content computes the digest and asks for the read lock,
\* start_session and rerender_content begin with the render.
ContentCall(p, op, snapshot) ==
  /\ pc[p] = "idle"
  /\ Goto(p, IF op = "update_content" THEN "read_wait" ELSE "rendering",
          [op |-> op, snapshot |-> snapshot,
           new_hash |-> content_hash(snapshot.markdown)])
  /\ out' = <<>>
  /\ UNCHANGED <<sessions, active_bufnr, rx, client_id_counter>>
  /\ GateIdle

\* self.sessions.read().await: granted when no task holds the write lock.
ReadLock(p) ==
  /\ pc[p] = "read_wait"
  /\ \A q \in AllTasks : ~HoldsWrite(q)
  /\ Goto(p, "read_held", local[p])
  /\ out' = <<>>
  /\ UNCHANGED <<sessions, active_bufnr, rx, client_id_counter>>
  /\ GateIdle

\* The block under the read lock, to its end: the optimistic check.
ReadUnlock(p) ==
  LET snapshot == local[p].snapshot
  IN /\ pc[p] = "read_held"
     /\ IF \/ ~Has(snapshot.bufnr)
           \/ SameContent(sessions[snapshot.bufnr], snapshot, local[p].new_hash)
        THEN Return(p, [op |-> "update_content", arg |-> snapshot, val |-> FALSE])
        ELSE Goto(p, "rendering", local[p])
     /\ out' = <<>>
     /\ UNCHANGED <<sessions, active_bufnr, rx, client_id_counter>>
     /\ GateIdle

\* let rendered_html = renderer.render(&snapshot.markdown)
Render(p) ==
  /\ pc[p] = "rendering"
  /\ Goto(p, "write_wait",
          [op |-> local[p].op, snapshot |-> local[p].snapshot,
           new_hash |-> local[p].new_hash,
           rendered_html |-> render(local[p].snapshot.markdown)])
  /\ out' = <<>>
  /\ UNCHANGED <<sessions, active_bufnr, rx, client_id_counter>>
  /\ GateIdle

\* self.sessions.write().await: granted when no task holds the lock.
WriteLock(p) ==
  /\ pc[p] = "write_wait"
  /\ \A q \in AllTasks : ~HoldsWrite(q) /\ ~HoldsRead(q)
  /\ Goto(p, "write_held", local[p])
  /\ out' = <<>>
  /\ UNCHANGED <<sessions, active_bufnr, rx, client_id_counter>>
  /\ GateIdle

\* The critical section under the write lock, to its end: the bookkeeping
\* of the three operations, with the html rendered before.
WriteUnlock(p) ==
  LET op == local[p].op
      snapshot == local[p].snapshot
      new_hash == local[p].new_hash
      rendered_html == local[p].rendered_html
      b == snapshot.bufnr
      ev == RenderFull(b, rendered_html, snapshot.cursor_line)
      started == Started(SessionEntry(b), snapshot, new_hash, rendered_html)
  IN /\ pc[p] = "write_held"
     /\ IF op = "start_session"
        THEN /\ sessions' = MapPut(sessions, b, started)
             /\ rx' = Send(rx, started.broadcaster, ev)
             /\ out' = <<Sent(started.broadcaster, ev)>>
             /\ Goto(p, "start_active", [bufnr |-> b])
        ELSE IF \/ ~Has(b)
                \/ /\ op = "update_content"
                   /\ SameContentRecheck(sessions[b], snapshot, new_hash)
        THEN /\ Return(p, [op |-> op, arg |-> snapshot, val |-> FALSE])
             /\ out' = <<>>
             /\ UNCHANGED <<sessions, rx>>
        ELSE /\ sessions' = [sessions EXCEPT
                               ![b] = ApplyContent(@, snapshot, new_hash, rendered_html)]
             /\ rx' = Send(rx, sessions[b].broadcaster, ev)
             /\ out' = <<Sent(sessions[b].broadcaster, ev)>>
             /\ Return(p, [op |-> op, arg |-> snapshot, val |-> TRUE])
     /\ UNCHANGED <<active_bufnr, client_id_counter>>
     /\ GateIdle

\* The operations that render.
RenderingOps == {"start_session", "update_content", "rerender_content"}

\* The snapshots of the lock scenario: two documents, two texts.
LockSnapshots ==
  { Snapshot(1, 1, <<"a">>, 1, 0, None),
    Snapshot(1, 2, <<"<">>, 1, 1, None),
    Snapshot(2, 1, <<"a">>, 1, 0, None),
    Snapshot(2, 2, <<"<">>, 1, 1, None) }

\* The lock scenario: two tasks start, update and render again the Sessions
\* of two documents.
LockNext ==
  \/ \E p \in Tasks, op \in RenderingOps, snapshot \in LockSnapshots :
       ContentCall(p, op, snapshot)
  \/ \E p \in Tasks : ReadLock(p)
  \/ \E p \in Tasks : ReadUnlock(p)
  \/ \E p \in Tasks : Render(p)
  \/ \E p \in Tasks : WriteLock(p)
  \/ \E p \in Tasks : WriteUnlock(p)
  \/ \E p \in Tasks : StartSetActive(p) /\ GateIdle

SpecLock == Init /\ [][LockNext]_vars

\* =========================================================== the render loop
\* MarkdownRenderer::render, event by event.  The parser (pulldown_cmark) is
\* not part of the program: an input of the loop is a text together with the
\* events the parser reports for it, each with the offset its range starts at.
Start(tag, at) == [ev |-> "Start", tag |-> tag, at |-> at]
StartUrl(tag, dest_url, at) ==
  [ev |-> "Start", tag |-> tag, dest_url |-> dest_url, title |-> <<>>,
   at |-> at]
End(tag, at) == [ev |-> "End", tag |-> tag, at |-> at]
Text(text, at) == [ev |-> "Text", text |-> text, at |-> at]

\* line_start_indices: offset 0, and the offset after every newline.
RECURSIVE StartsFrom(_, _)
StartsFrom(markdown, i) ==
  IF i > Len(markdown) THEN <<>>
  ELSE (IF markdown[i] = "\n" THEN <<i>> ELSE <<>>) \o StartsFrom(markdown, i + 1)

line_start_indices(markdown) == <<0>> \o StartsFrom(markdown, 1)

\* line_for_offset: binary_search on the line starts; Ok(idx) => idx + 1,
\* Err(0) => 1, Err(idx) => idx, with idx counted from 0.
line_for_offset(offset, starts) ==
  IF \E i \in 1..Len(starts) : starts[i] = offset
  THEN CHOOSE i \in 1..Len(starts) : starts[i] = offset
  ELSE LET idx == Cardinality({i \in 1..Len(starts) : starts[i] < offset})
       IN IF idx = 0 THEN 1 ELSE idx

\* A loop that would take the line of every event as the parser reports it.
LineAsReported(line, last_line) == line

\* if line < last_line { line = last_line } else { last_line = line }: the
\* line the event is rendered with, which is also the new last_line.
ClampLine(line, last_line) == IF line < last_line THEN last_line ELSE line

\* open_block_tag
open_block_tag(tag, line) ==
  <<"<" \o tag \o " data-line=\"" \o ToString(line) \o "\">">>

\* push_escaped_attr
push_escaped_attr(text) == push_escaped_html(text)

\* A comparison that would take the destination as it is written.
AsWritten(s) == s

\* str::to_ascii_lowercase
UpperCase ==
  <<"A", "B", "C", "D", "E", "F", "G", "H", "I", "J", "K", "L", "M",
    "N", "O", "P", "Q", "R", "S", "T", "U", "V", "W", "X", "Y", "Z">>
LowerCase ==
  <<"a", "b", "c", "d", "e", "f", "g", "h", "i", "j", "k", "l", "m",
    "n", "o", "p", "q", "r", "s", "t", "u", "v", "w", "x", "y", "z">>

to_ascii_lowercase(s) ==
  [i \in 1..Len(s) |->
     IF \E k \in 1..Len(UpperCase) : UpperCase[k] = s[i]
     THEN LowerCase[CHOOSE k \in 1..Len(UpperCase) : UpperCase[k] = s[i]]
     ELSE s[i]]

\* str::starts_with
starts_with(s, prefix) ==
  Len(s) >= Len(prefix) /\ SubSeq(s, 1, Len(prefix)) = prefix

JAVASCRIPT == <<"j", "a", "v", "a", "s", "c", "r", "i", "p", "t", ":">>
VBSCRIPT == <<"v", "b", "s", "c", "r", "i", "p", "t", ":">>
DATA == <<"d", "a", "t", "a", ":">>
DATA_IMAGE == <<"d", "a", "t", "a", ":", "i", "m", "a", "g", "e", "/">>

sanitize_url(url) ==
  LET trimmed == Trim(url)
      lower == to_ascii_lowercase(trimmed)
  IN IF trimmed = <<>> THEN <<"#">>
     ELSE IF \/ starts_with(lower, JAVASCRIPT)
             \/ starts_with(lower, DATA)
             \/ starts_with(lower, VBSCRIPT)
     THEN <<"#">>
     ELSE trimmed

sanitize_image_url(url) ==
  LET trimmed == Trim(url)
      lower == to_ascii_lowercase(trimmed)
  IN IF trimmed = <<>> THEN <<"#">>
     ELSE IF starts_with(lower, JAVASCRIPT) \/ starts_with(lower, VBSCRIPT)
     THEN <<"#">>
     ELSE IF starts_with(lower, DATA) /\ ~starts_with(lower, DATA_IMAGE)
     THEN <<"#">>
     ELSE trimmed

\* ------------------------------------------------------------- heading ids
\* collect_heading_ids and its helpers, over the ASCII letters and digits.
Digits == <<"0", "1", "2", "3", "4", "5", "6", "7", "8", "9">>

\* usize, the way format! writes it.
RECURSIVE Decimal(_)
Decimal(n) ==
  IF n < 10 THEN <<Digits[n + 1]>>
  ELSE Decimal(n \div 10) \o <<Digits[(n % 10) + 1]>>

\* char::is_alphanumeric, char::is_whitespace
is_alphanumeric(ch) ==
  \/ \E k \in 1..Len(UpperCase) : ch = UpperCase[k] \/ ch = LowerCase[k]
  \/ \E k \in 1..Len(Digits) : ch = Digits[k]

is_whitespace(ch) == ch \in {" ", "\t", "\n"}

SECTION == <<"s", "e", "c", "t", "i", "o", "n">>

\* The loop of slugify_heading from character i on.
RECURSIVE SlugFrom(_, _, _, _)
SlugFrom(text, i, slug, pending_dash) ==
  IF i > Len(text) THEN slug
  ELSE IF is_alphanumeric(text[i])
  THEN SlugFrom(text, i + 1,
                (IF pending_dash /\ slug # <<>> THEN slug \o <<"-">> ELSE slug)
                  \o to_ascii_lowercase(<<text[i]>>),
                FALSE)
  ELSE SlugFrom(text, i + 1, slug,
                pending_dash \/ is_whitespace(text[i]) \/ text[i] \in {"-", "_"})

slugify_heading(text) ==
  LET slug == SlugFrom(text, 1, <<>>, FALSE)
  IN IF slug = <<>> THEN SECTION ELSE slug

\* The loop of normalize_heading_lookup_text from character i on.
RECURSIVE LookupFrom(_, _, _, _)
LookupFrom(text, i, output, pending_space) ==
  IF i > Len(text) THEN output
  ELSE IF is_alphanumeric(text[i])
  THEN LookupFrom(text, i + 1,
                  (IF pending_space /\ output # <<>> THEN output \o <<" ">>
                   ELSE output) \o to_ascii_lowercase(<<text[i]>>),
                  FALSE)
  ELSE LookupFrom(text, i + 1, output, TRUE)

normalize_heading_lookup_text(text) == LookupFrom(text, 1, <<>>, FALSE)

\* normalize_heading_id
normalize_heading_id(id) ==
  IF id = None \/ Trim(id[1]) = <<>> THEN None ELSE Some(Trim(id[1]))

\* internal_fragment_id
internal_fragment_id(dest) ==
  LET trimmed == Trim(dest)
  IN IF trimmed = <<>> \/ Head(trimmed) # "#" \/ Trim(Tail(trimmed)) = <<>>
     THEN None
     ELSE Some(Trim(Tail(trimmed)))

\* format!("{base}-{suffix}")
Candidate(base, suffix) == base \o <<"-">> \o Decimal(suffix)

\* A loop that would take the next suffix of the base without looking it up.
SuffixAsCounted(base, used_ids, suffix) == suffix

\* The loop of unique_heading_id: the first suffix, from suffix on, whose
\* candidate is not in use.
RECURSIVE FirstUnused(_, _, _)
FirstUnused(base, used_ids, suffix) ==
  IF Candidate(base, suffix) \notin used_ids THEN suffix
  ELSE FirstUnused(base, used_ids, suffix + 1)

\* unique_heading_id: the id, and used_ids and next_suffixes after the call.
unique_heading_id(base, used_ids, next_suffixes) ==
  IF base \notin used_ids
  THEN [id |-> base, used_ids |-> used_ids \cup {base},
        next_suffixes |-> IF base \in DOMAIN next_suffixes THEN next_suffixes
                          ELSE MapPut(next_suffixes, base, 1)]
  ELSE LET start == IF base \in DOMAIN next_suffixes THEN next_suffixes[base]
                    ELSE 1
           suffix == FirstUnused(base, used_ids, start)
       IN [id |-> Candidate(base, suffix),
           used_ids |-> used_ids \cup {Candidate(base, suffix)},
           next_suffixes |-> MapPut(next_suffixes, base, suffix + 1)]

\* The events that carry text into a heading or a link text.
TextEvents ==
  {"Text", "Code", "Html", "InlineHtml", "InlineMath", "DisplayMath",
   "FootnoteReference"}
BreakEvents == {"SoftBreak", "HardBreak"}

\* if !text.ends_with(' ') { text.push(' ') }
PushSpace(text) ==
  IF text # <<>> /\ text[Len(text)] = " " THEN text ELSE Append(text, " ")

\* One turn of the loop of collect_internal_heading_aliases.  aliases maps a
\* key to the queue of the fragments of the links with that text.
alias_event(al, event) ==
  CASE event.ev = "Start" /\ event.tag = "Link" ->
         [al EXCEPT !.active_fragment = internal_fragment_id(event.dest_url),
                    !.active_text = <<>>]
    [] event.ev = "End" /\ event.tag = "Link" ->
         LET key == normalize_heading_lookup_text(al.active_text)
         IN [al EXCEPT
               !.aliases =
                 IF al.active_fragment # None /\ key # <<>>
                 THEN MapPut(@, key,
                             Append(IF key \in DOMAIN @ THEN @[key] ELSE <<>>,
                                    al.active_fragment[1]))
                 ELSE @,
               !.active_fragment = None,
               !.active_text = <<>>]
    [] event.ev \in TextEvents ->
         [al EXCEPT !.active_text =
            IF al.active_fragment # None THEN @ \o event.text ELSE @]
    [] event.ev \in BreakEvents ->
         [al EXCEPT !.active_text =
            IF al.active_fragment # None THEN PushSpace(@) ELSE @]
    [] OTHER -> al

RECURSIVE AliasesFrom(_, _)
AliasesFrom(events, al) ==
  IF events = <<>> THEN al.aliases
  ELSE AliasesFrom(Tail(events), alias_event(al, Head(events)))

collect_internal_heading_aliases(events) ==
  AliasesFrom(events, [aliases |-> <<>>, active_fragment |-> None,
                       active_text |-> <<>>])

\* A lookup that would leave the fragment in the queue.
take_heading_alias_kept(aliases, heading_text) ==
  LET key == normalize_heading_lookup_text(heading_text)
  IN IF key = <<>> \/ key \notin DOMAIN aliases \/ aliases[key] = <<>>
     THEN [alias |-> None, aliases |-> aliases]
     ELSE [alias |-> Some(Head(aliases[key])), aliases |-> aliases]

\* take_heading_alias: the fragment, and the aliases after the call.
take_heading_alias(aliases, heading_text) ==
  LET key == normalize_heading_lookup_text(heading_text)
  IN IF key = <<>> \/ key \notin DOMAIN aliases \/ aliases[key] = <<>>
     THEN [alias |-> None, aliases |-> aliases]
     ELSE [alias |-> Some(Head(aliases[key])),
           aliases |-> MapPut(aliases, key, Tail(aliases[key]))]

\* The locals of collect_heading_ids before its loop.  bases is history: the
\* base id of every heading so far.
CollectLocals(events) ==
  [ids |-> <<>>, used_ids |-> {}, next_suffixes |-> <<>>,
   heading_aliases |-> collect_internal_heading_aliases(events),
   heading_text |-> None, explicit_heading_id |-> None, bases |-> <<>>]

\* One turn of the loop of collect_heading_ids.
collect_event(hs, event) ==
  CASE event.ev = "Start" /\ event.tag = "Heading" ->
         [hs EXCEPT !.heading_text = Some(<<>>),
                    !.explicit_heading_id = normalize_heading_id(event.id)]
    [] event.ev = "End" /\ event.tag = "Heading" ->
         LET text == IF hs.heading_text = None THEN <<>> ELSE hs.heading_text[1]
             taken == take_heading_alias(hs.heading_aliases, text)
             base == IF hs.explicit_heading_id # None
                     THEN hs.explicit_heading_id[1]
                     ELSE IF taken.alias # None THEN taken.alias[1]
                     ELSE slugify_heading(text)
             unique == unique_heading_id(base, hs.used_ids, hs.next_suffixes)
         IN [hs EXCEPT
               !.heading_text = None,
               !.explicit_heading_id = None,
               !.heading_aliases =
                 IF hs.explicit_heading_id # None THEN @ ELSE taken.aliases,
               !.used_ids = unique.used_ids,
               !.next_suffixes = unique.next_suffixes,
               !.ids = Append(@, unique.id),
               !.bases = Append(@, base)]
    [] event.ev \in TextEvents ->
         [hs EXCEPT !.heading_text =
            IF @ # None THEN Some(@[1] \o event.text) ELSE @]
    [] event.ev \in BreakEvents ->
         [hs EXCEPT !.heading_text =
            IF @ # None THEN Some(PushSpace(@[1])) ELSE @]
    [] OTHER -> hs

RECURSIVE CollectFrom(_, _)
CollectFrom(events, hs) ==
  IF events = <<>> THEN hs.ids
  ELSE CollectFrom(Tail(events), collect_event(hs, Head(events)))

collect_heading_ids(events) == CollectFrom(events, CollectLocals(events))

\* The tags whose start carries a line marker through open_block_tag, and all
\* the tags whose start carries a line marker.
BlockTags == {"Paragraph", "Item"}
TagName(tag) == IF tag = "Paragraph" THEN "p" ELSE "li"
MarkedTags ==
  BlockTags \cup {"Heading", "CodeBlock", "HtmlBlock", "FootnoteDefinition"}

\* render_start_tag, for paragraphs, list items, bullet lists, headings, code
\* blocks, html blocks, footnote definitions, links and images: the html it
\* appends.
render_start_tag(tag, line, heading_ids, heading_index) ==
  CASE tag.tag \in BlockTags -> open_block_tag(TagName(tag.tag), line)
    [] tag.tag = "Heading" ->
         <<"<h" \o ToString(tag.level) \o " data-line=\"" \o ToString(line)
               \o "\"">>
         \o (IF heading_index < Len(heading_ids)
             THEN <<" id=\"">> \o push_escaped_attr(heading_ids[heading_index + 1])
                              \o <<"\"">>
             ELSE <<>>)
         \o <<">">>
    [] tag.tag = "CodeBlock" ->
         <<"<pre data-line=\"" \o ToString(line) \o "\"><code">>
         \o (IF tag.lang # None /\ Trim(tag.lang[1]) # <<>>
             THEN <<" class=\"language-">> \o push_escaped_attr(Trim(tag.lang[1]))
                                          \o <<"\"">>
             ELSE <<>>)
         \o <<">">>
    [] tag.tag = "HtmlBlock" ->
         <<"<pre data-line=\"" \o ToString(line) \o "\" class=\"html-block\">">>
    [] tag.tag = "FootnoteDefinition" ->
         <<"<section data-line=\"" \o ToString(line)
             \o "\" class=\"footnote\" data-footnote=\"">>
         \o push_escaped_attr(tag.label) \o <<"\">">>
    [] tag.tag = "List" -> <<"<ul>">>
    [] tag.tag = "Link" ->
         <<"<a href=\"">> \o push_escaped_attr(sanitize_url(tag.dest_url))
                          \o <<"\"">>
         \o (IF tag.title # <<>>
             THEN <<" title=\"">> \o push_escaped_attr(tag.title) \o <<"\"">>
             ELSE <<>>)
         \o <<">">>
    [] tag.tag = "Image" ->
         <<"<img src=\"">> \o push_escaped_attr(sanitize_image_url(tag.dest_url))
                           \o <<"\" alt=\"">>

\* render_end_tag
render_end_tag(tag) ==
  CASE tag.tag = "Paragraph" -> <<"</p>">>
    [] tag.tag = "Heading" -> <<"</h" \o ToString(tag.level) \o ">">>
    [] tag.tag = "CodeBlock" -> <<"</code></pre>">>
    [] tag.tag = "HtmlBlock" -> <<"</pre>">>
    [] tag.tag = "FootnoteDefinition" -> <<"</section>">>
    [] tag.tag = "Item" -> <<"</li>">>
    [] tag.tag = "List" -> <<"</ul>">>
    [] tag.tag = "Link" -> <<"</a>">>
    [] tag.tag = "Image" -> <<>>

\* render_image_alt_event: the html it appends.
render_image_alt_event(event, image_titles) ==
  CASE event.ev = "End" /\ event.tag = "Image" ->
         <<"\"">>
         \o (IF image_titles[Len(image_titles)] # None
             THEN <<" title=\"">>
                  \o push_escaped_attr(image_titles[Len(image_titles)][1])
                  \o <<"\"">>
             ELSE <<>>)
         \o <<" />">>
    [] event.ev \in TextEvents -> push_escaped_attr(event.text)
    [] event.ev \in BreakEvents -> <<" ">>
    [] OTHER -> <<>>

\* The locals of render before the loop, on an output buffer.  markers is
\* history: the lines of the markers written so far.
RenderLocals(output) ==
  [output |-> output, markers |-> <<>>, last_line |-> 1, heading_index |-> 0,
   image_titles |-> <<>>]

\* One turn of the loop.
render_event(st, event, line_starts, heading_ids) ==
  LET line == ClampLine(line_for_offset(event.at, line_starts), st.last_line)
      clamped == [st EXCEPT !.last_line = ClampLine(line, st.last_line)]
  IN IF st.image_titles # <<>>
     THEN [clamped EXCEPT
             !.output = @ \o render_image_alt_event(event, st.image_titles),
             !.image_titles = IF event.ev = "End" /\ event.tag = "Image"
                              THEN SubSeq(@, 1, Len(@) - 1) ELSE @]
     ELSE CASE event.ev = "Start" ->
                 [clamped EXCEPT
                    !.output = @ \o render_start_tag(event, line, heading_ids,
                                                     st.heading_index),
                    !.markers = IF event.tag \in MarkedTags
                                THEN Append(@, line) ELSE @,
                    !.heading_index = IF event.tag = "Heading" THEN @ + 1 ELSE @,
                    !.image_titles =
                      IF event.tag # "Image" THEN @
                      ELSE IF event.title = <<>> THEN Append(@, None)
                      ELSE Append(@, Some(event.title))]
            [] event.ev = "End" ->
                 [clamped EXCEPT !.output = @ \o render_end_tag(event)]
            [] event.ev \in {"Text", "Html", "InlineHtml"} ->
                 [clamped EXCEPT !.output = @ \o push_escaped_html(event.text)]
            [] event.ev = "Code" ->
                 [clamped EXCEPT !.output =
                    @ \o <<"<code>">> \o push_escaped_html(event.text)
                      \o <<"</code>">>]
            [] event.ev = "InlineMath" ->
                 [clamped EXCEPT !.output =
                    @ \o <<"<span class=\"math-inline\">">>
                      \o push_escaped_html(event.text) \o <<"</span>">>]
            [] event.ev = "DisplayMath" ->
                 [clamped EXCEPT !.output =
                    @ \o <<"<div class=\"math-display\">">>
                      \o push_escaped_html(event.text) \o <<"</div>">>]
            [] event.ev = "FootnoteReference" ->
                 [clamped EXCEPT !.output =
                    @ \o <<"<sup>">> \o push_escaped_html(event.text)
                      \o <<"</sup>">>]
            [] event.ev = "SoftBreak" ->
                 [clamped EXCEPT !.output = @ \o <<"\n">>]
            [] event.ev = "HardBreak" ->
                 [clamped EXCEPT !.output = @ \o <<"<br />\n">>]
            [] event.ev = "Rule" ->
                 [clamped EXCEPT !.output = @ \o <<"<hr />">>]

\* A renderer that would go on writing into the buffer of its last call.
KeptOutput(p) ==
  IF local[p].done # <<>> THEN local[p].done[Len(local[p].done)].html
  ELSE <<"<article id=\"md-root\">">>

\* String::with_capacity(..), output.push_str("<article id=\"md-root\">")
NewOutput(p) == <<"<article id=\"md-root\">">>

\* The renders a task has yet to make are in local[p].jobs, the results of
\* those it has made in local[p].done.
\* The call, up to the loop.
RenderBegin(p) ==
  /\ pc[p] = "idle"
  /\ "jobs" \in DOMAIN local[p]
  /\ local[p].jobs # <<>>
  /\ LET job == Head(local[p].jobs)
     IN Goto(p, "render_loop",
             [jobs |-> Tail(local[p].jobs), done |-> local[p].done, job |-> job,
              line_starts |-> line_start_indices(job.markdown),
              heading_ids |-> collect_heading_ids(job.events),
              rest |-> job.events, st |-> RenderLocals(NewOutput(p))])
  /\ out' = <<>>
  /\ UNCHANGED <<sessions, active_bufnr, rx, client_id_counter>>
  /\ GateIdle

\* for (event, range) in parser { ... }: one event.
RenderEvent(p) ==
  /\ pc[p] = "render_loop"
  /\ local[p].rest # <<>>
  /\ Goto(p, "render_loop",
          [local[p] EXCEPT
             !.rest = Tail(@),
             !.st = render_event(@, Head(local[p].rest), local[p].line_starts,
                                 local[p].heading_ids)])
  /\ out' = <<>>
  /\ UNCHANGED <<sessions, active_bufnr, rx, client_id_counter>>
  /\ GateIdle

\* output.push_str("</article>"); output
RenderEnd(p) ==
  /\ pc[p] = "render_loop"
  /\ local[p].rest = <<>>
  /\ LET html == local[p].st.output \o <<"</article>">>
     IN /\ pc' = [pc EXCEPT ![p] = "idle"]
        /\ local' = [local EXCEPT ![p] =
                       [bufnr |-> 0, jobs |-> local[p].jobs,
                        done |-> Append(local[p].done,
                                        [job |-> local[p].job, html |-> html,
                                         markers |-> local[p].st.markers])]]
        /\ ret' = [op |-> "render", arg |-> local[p].job, val |-> html]
  /\ out' = <<>>
  /\ UNCHANGED <<sessions, active_bufnr, rx, client_id_counter>>
  /\ GateIdle

RenderNext ==
  \/ \E p \in Tasks : RenderBegin(p)
  \/ \E p \in Tasks : RenderEvent(p)
  \/ \E p \in Tasks : RenderEnd(p)

\* The state in which the tasks are about to make the renders of jobs.
RenderInit(jobs) ==
  /\ sessions = <<>>
  /\ active_bufnr = None
  /\ rx = <<>>
  /\ client_id_counter = 1
  /\ pc = [p \in AllTasks |-> "idle"]
  /\ local = [p \in AllTasks |->
                IF p \in DOMAIN jobs
                THEN [bufnr |-> 0, jobs |-> jobs[p], done |-> <<>>]
                ELSE NoLocal]
  /\ ret = NoCall
  /\ out = <<>>
  /\ GateNew

\* What the parser reports for a plain paragraph of one line.
ParagraphEvents(text) ==
  <<Start("Paragraph", 0), Text(text, 0), End("Paragraph", 0)>>

\* The marker scenario: a text of three lines, and up to MaxEvents events at
\* any of its offsets, in any order: starts of paragraphs and list items,
\* ends of paragraphs, texts.
MaxEvents == 3

MarkerText == <<"a", "\n", "a", "a", "\n", "a">>

MarkerEvents ==
  UNION { {Start("Paragraph", at), Start("Item", at), End("Paragraph", at),
           Text(<<"a">>, at)} : at \in 0..(Len(MarkerText) - 1) }

MarkerInit ==
  \E n \in 1..MaxEvents : \E events \in [1..n -> MarkerEvents] :
    RenderInit(<< <<[markdown |-> MarkerText, events |-> events]>> >>)

SpecMarkers == MarkerInit /\ [][RenderNext]_vars

\* The link scenario: a paragraph of one line that holds a link or an image,
\* whose destination is a scheme, or none, as written in some case, after
\* white space or not, before some rest.
DestinationLeads == {<<>>, <<" ">>}

DestinationSchemes ==
  { JAVASCRIPT,
    <<"J", "a", "v", "a", "S", "c", "r", "i", "p", "t", ":">>,
    VBSCRIPT,
    <<"V", "B", "S", "C", "R", "I", "P", "T", ":">>,
    DATA,
    DATA_IMAGE,
    <<"D", "a", "t", "a", ":", "I", "m", "a", "g", "e", "/">>,
    <<"d", "a", "t", "a", ":", "t", "e", "x", "t", "/">>,
    <<"h", "t", "t", "p", ":">>,
    <<"j", "a", "v", "a">>,
    <<>> }

DestinationRests == {<<>>, <<"x">>, <<"a", "&", "b">>, <<"x", " ">>}

Destinations ==
  { lead \o scheme \o rest :
      lead \in DestinationLeads, scheme \in DestinationSchemes,
      rest \in DestinationRests }

LinkEvents(tag, dest_url) ==
  <<Start("Paragraph", 0), StartUrl(tag, dest_url, 0), Text(<<"a">>, 0),
    End(tag, 0), End("Paragraph", 0)>>

LinkInit ==
  \E tag \in {"Link", "Image"}, dest_url \in Destinations :
    RenderInit(<< <<[markdown |-> <<"a">>, events |-> LinkEvents(tag, dest_url)]>> >>)

SpecLinks == LinkInit /\ [][RenderNext]_vars

\* The repeated-render scenario: one task renders two inputs, one after the
\* other, while a second task renders a third; the three are drawn from
\* RenderJobs, so that some are the same.
RenderJobs ==
  { [markdown |-> <<"a">>, events |-> ParagraphEvents(<<"a">>)],
    [markdown |-> <<"<">>, events |-> ParagraphEvents(<<"<">>)],
    [markdown |-> MarkerText,
     events |-> <<Start("Item", 5), Start("Paragraph", 2), Text(<<"a">>, 2)>>],
    [markdown |-> <<"a">>,
     events |-> LinkEvents("Image", DATA_IMAGE \o <<"x">>)] }

TwiceInit ==
  \E first \in RenderJobs, second \in RenderJobs, third \in RenderJobs :
    RenderInit(<< <<first, second>>, <<third>> >>)

SpecTwice == TwiceInit /\ [][RenderNext]_vars

\* --------------------------------------------- collect_heading_ids, as a loop
\* A document is given by its blocks, local[p].blocks; what the parser reports
\* for each is below: a heading of level 2 on one line, and a paragraph that
\* holds one link.
Heading(id, text) == [kind |-> "heading", id |-> id, text |-> text]
Link(dest_url, text) == [kind |-> "link", dest_url |-> dest_url, text |-> text]

BlockEvents(block) ==
  IF block.kind = "heading"
  THEN <<[ev |-> "Start", tag |-> "Heading", level |-> 2, id |-> block.id,
          at |-> 0],
         Text(block.text, 0),
         [ev |-> "End", tag |-> "Heading", level |-> 2, at |-> 0]>>
  ELSE <<Start("Paragraph", 0), StartUrl("Link", block.dest_url, 0),
         Text(block.text, 0), End("Link", 0), End("Paragraph", 0)>>

RECURSIVE DocumentEvents(_)
DocumentEvents(blocks) ==
  IF blocks = <<>> THEN <<>>
  ELSE BlockEvents(Head(blocks)) \o DocumentEvents(Tail(blocks))

\* The call, up to the loop.
CollectBegin(p) ==
  /\ pc[p] = "idle"
  /\ "blocks" \in DOMAIN local[p]
  /\ "ids" \notin DOMAIN local[p]
  /\ LET events == DocumentEvents(local[p].blocks)
     IN Goto(p, "collect_loop",
             [bufnr |-> 0, blocks |-> local[p].blocks, rest |-> events,
              hs |-> CollectLocals(events)])
  /\ out' = <<>>
  /\ UNCHANGED <<sessions, active_bufnr, rx, client_id_counter>>
  /\ GateIdle

\* for event in Parser::new_ext(markdown, options) { ... }: one event.
CollectEvent(p) ==
  /\ pc[p] = "collect_loop"
  /\ local[p].rest # <<>>
  /\ Goto(p, "collect_loop",
          [local[p] EXCEPT !.rest = Tail(@),
                           !.hs = collect_event(@, Head(local[p].rest))])
  /\ out' = <<>>
  /\ UNCHANGED <<sessions, active_bufnr, rx, client_id_counter>>
  /\ GateIdle

\* ids
CollectEnd(p) ==
  /\ pc[p] = "collect_loop"
  /\ local[p].rest = <<>>
  /\ pc' = [pc EXCEPT ![p] = "idle"]
  /\ local' = [local EXCEPT ![p] =
                 [bufnr |-> 0, blocks |-> local[p].blocks,
                  ids |-> local[p].hs.ids, bases |-> local[p].hs.bases]]
  /\ ret' = [op |-> "collect_heading_ids", arg |-> local[p].blocks,
             val |-> local[p].hs.ids]
  /\ out' = <<>>
  /\ UNCHANGED <<sessions, active_bufnr, rx, client_id_counter>>
  /\ GateIdle

CollectNext ==
  \/ \E p \in StreamTasks : CollectBegin(p)
  \/ \E p \in StreamTasks : CollectEvent(p)
  \/ \E p \in StreamTasks : CollectEnd(p)

\* The state in which a task is about to collect the ids of a document.
CollectInit(blocks) ==
  /\ sessions = <<>>
  /\ active_bufnr = None
  /\ rx = <<>>
  /\ client_id_counter = 1
  /\ pc = [p \in AllTasks |-> "idle"]
  /\ local = [p \in AllTasks |->
                IF p \in StreamTasks THEN [bufnr |-> 0, blocks |-> blocks]
                ELSE NoLocal]
  /\ ret = NoCall
  /\ out = <<>>
  /\ GateNew

\* The collision scenario: up to MaxHeadings headings, "Section",
\* "Section-1" or "!", with the explicit id section-1 or without one.
MaxHeadings == 4

SectionText == <<"S", "e", "c", "t", "i", "o", "n">>

SectionHeadings ==
  { Heading(id, text) :
      id \in {None, Some(SECTION \o <<"-", "1">>)},
      text \in {SectionText, SectionText \o <<"-", "1">>, <<"!">>} }

HeadingInit ==
  \E n \in 1..MaxHeadings : \E blocks \in [1..n -> SectionHeadings] :
    CollectInit(blocks)

SpecHeadings == HeadingInit /\ [][CollectNext]_vars

\* The table-of-contents scenario: up to MaxBlocks blocks, each a link or a heading,
\* in any order.  The texts come in two spellings of one word and in two
\* that hold no letter or digit; a link leads to one of two fragments or
\* out of the document, a heading has the explicit id x or none.
MaxBlocks == 3

TocTexts == {<<"S">>, <<"s", "!">>, <<"?">>, <<"!">>}

TocBlocks ==
  { Link(dest_url, text) :
      dest_url \in {<<"#", "x">>, <<"#", "y">>, <<"y">>},
      text \in TocTexts }
  \cup { Heading(id, text) : id \in {None, Some(<<"x">>)}, text \in TocTexts }

TocInit ==
  \E n \in 1..MaxBlocks : \E blocks \in [1..n -> TocBlocks] :
    CollectInit(blocks)

SpecToc == TocInit /\ [][CollectNext]_vars

\* The escape scenario: up to MaxBlocks blocks, each of which carries one of
\* EscapeStrings wherever the document can supply characters: text, inline
\* code, an html block, inline html, the destination and title of a link, the
\* destination, alternative text and title of an image, the explicit id and
\* text of a heading, the language and text of a code block, the label of a
\* footnote and of a reference to it, inline and display math.
EscapeStrings == {<<"&", "<", ">">>, <<"a", "\"", "'">>}

TextAs(ev, text) == [ev |-> ev, text |-> text, at |-> 0]

EscapeBlocks ==
  UNION {
    { <<Start("Paragraph", 0), Text(s, 0), End("Paragraph", 0)>>,
      <<Start("Paragraph", 0), TextAs("Code", s), End("Paragraph", 0)>>,
      <<Start("HtmlBlock", 0), TextAs("Html", s), End("HtmlBlock", 0)>>,
      <<Start("Paragraph", 0), TextAs("InlineHtml", s), End("Paragraph", 0)>>,
      <<Start("Paragraph", 0),
        [ev |-> "Start", tag |-> "Link", dest_url |-> <<"x">> \o s, title |-> s,
         at |-> 0],
        Text(<<"a">>, 0), End("Link", 0), End("Paragraph", 0)>>,
      <<Start("Paragraph", 0),
        [ev |-> "Start", tag |-> "Image", dest_url |-> <<"x">> \o s, title |-> s,
         at |-> 0],
        Text(s, 0), End("Image", 0), End("Paragraph", 0)>>,
      <<[ev |-> "Start", tag |-> "Heading", level |-> 2, id |-> Some(s), at |-> 0],
        Text(s, 0),
        [ev |-> "End", tag |-> "Heading", level |-> 2, at |-> 0]>>,
      <<[ev |-> "Start", tag |-> "CodeBlock", lang |-> Some(s), at |-> 0],
        Text(s, 0), End("CodeBlock", 0)>>,
      <<[ev |-> "Start", tag |-> "FootnoteDefinition", label |-> s, at |-> 0],
        Start("Paragraph", 0), TextAs("FootnoteReference", s),
        End("Paragraph", 0), End("FootnoteDefinition", 0)>>,
      <<Start("Paragraph", 0), TextAs("InlineMath", s),
        TextAs("DisplayMath", s), End("Paragraph", 0)>> } :
    s \in EscapeStrings }

RECURSIVE Concat(_)
Concat(seqs) == IF seqs = <<>> THEN <<>> ELSE Head(seqs) \o Concat(Tail(seqs))

EscapeInit ==
  \E n \in 1..MaxBlocks : \E blocks \in [1..n -> EscapeBlocks] :
    RenderInit(<< <<[markdown |-> <<"a">>, events |-> Concat(blocks)]>> >>)

SpecEscapes == EscapeInit /\ [][RenderNext]_vars

\* ================================================================== claims
\* The no-op test of update_content, in the words of its contract: the
\* Session records the change sequence and the digest of the snapshot.
Records(session, snapshot) ==
  /\ session.changedtick = snapshot.changedtick
  /\ session.content_hash = content_hash(snapshot.markdown)

\* The RenderFull a content operation publishes for a snapshot.
RenderFullOf(snapshot) ==
  RenderFull(snapshot.bufnr, render(snapshot.markdown), snapshot.cursor_line)

\* The Session holds what a content operation derives from the snapshot.
HoldsContent(session, snapshot) ==
  /\ session.changedtick = snapshot.changedtick
  /\ session.content_hash = content_hash(snapshot.markdown)
  /\ session.cursor_line = snapshot.cursor_line
  /\ session.cursor_col = snapshot.cursor_col
  /\ session.source_path = snapshot_source_path(snapshot.source_path)
  /\ session.html = render(snapshot.markdown)

\* C1: update_content on a document whose Session records the change sequence
\* and the digest of the snapshot returns false, publishes nothing and leaves
\* the Session as it is; this holds for the test under the read lock and for
\* the test made again under the write lock.
C1_UpdateContentNoOp ==
  [][\A p \in Tasks, s \in ContentSnapshots :
       LET NoOp == /\ ret' = [op |-> "update_content", arg |-> s, val |-> FALSE]
                   /\ out' = <<>>
                   /\ sessions' = sessions
                   /\ rx' = rx
       IN /\ (/\ UpdateContentRead(p, s)
               /\ Has(s.bufnr)
               /\ Records(sessions[s.bufnr], s)) => NoOp
          /\ (/\ UpdateContentWrite(p)
               /\ local[p].snapshot = s
               /\ Has(s.bufnr)
               /\ Records(sessions[s.bufnr], s)) => NoOp
    ]_vars

\* C1 happens: update_content has just returned false for a snapshot whose
\* change sequence and digest the Session records, the Session holding
\* rendered html.
C1_Witness ==
  /\ ret.op = "update_content"
  /\ ret.val = FALSE
  /\ Has(ret.arg.bufnr)
  /\ Records(sessions[ret.arg.bufnr], ret.arg)
  /\ sessions[ret.arg.bufnr].html = render(ret.arg.markdown)

\* C3: update_content on an existing Session whose change sequence or digest
\* differs from the snapshot's goes on to the write lock, and there (the
\* Session still being there and still differing) returns true, sets change
\* sequence, digest, cursor line and column, source path and html
\* (render of the snapshot's text) and publishes exactly one RenderFull with
\* that html and cursor line.
C3_UpdateContentApplies ==
  [][\A p \in Tasks, s \in ContentSnapshots :
       /\ (/\ UpdateContentRead(p, s)
            /\ Has(s.bufnr)
            /\ ~Records(sessions[s.bufnr], s))
           => (pc'[p] = "update_write" /\ local'[p].snapshot = s)
       /\ (/\ UpdateContentWrite(p)
            /\ local[p].snapshot = s
            /\ Has(s.bufnr)
            /\ ~Records(sessions[s.bufnr], s))
           => /\ ret' = [op |-> "update_content", arg |-> s, val |-> TRUE]
              /\ DOMAIN sessions' = DOMAIN sessions
              /\ HoldsContent(sessions'[s.bufnr], s)
              /\ sessions'[s.bufnr].state = sessions[s.bufnr].state
              /\ sessions'[s.bufnr].broadcaster = sessions[s.bufnr].broadcaster
              /\ out' = <<Sent(sessions[s.bufnr].broadcaster, RenderFullOf(s))>>
    ]_vars

\* C3 happens: update_content has just returned true for a text that needs
\* escaping and a source path that needs trimming, after the cursor had been
\* elsewhere.
C3_Witness ==
  /\ ret.op = "update_content"
  /\ ret.val = TRUE
  /\ ret.arg.markdown = <<"<">>
  /\ Has(ret.arg.bufnr)
  /\ HoldsContent(sessions[ret.arg.bufnr], ret.arg)
  /\ sessions[ret.arg.bufnr].source_path = Some(<<"d", "/", "f">>)
  /\ out = <<Sent(sessions[ret.arg.bufnr].broadcaster, RenderFullOf(ret.arg))>>

\* The duplicate-update scenario is over: every call has returned.
DupDone ==
  \A p \in DupTasks : pc[p] = "idle" /\ "todo" \notin DOMAIN local[p]

\* C2: when the tasks of DupTasks call update_content concurrently with one
\* snapshot that the Session does not record (its change sequence or its
\* digest differs), then once all have returned the viewer has been sent
\* exactly one RenderFull; and a call returns true exactly when it publishes
\* one, so exactly one call returns true and the others return false.
C2_DuplicateUpdatesPublishOnce ==
  /\ [](DupDone => /\ Len(rx[1].queue) = 1
                    /\ rx[1].queue[1].type = "render_full"
                    /\ rx[1].queue[1].html = sessions[1].html)
  /\ [][ret'.op = "update_content" =>
          /\ ret'.val = TRUE => /\ Len(out') = 1
                                /\ rx'[1].queue = Append(rx[1].queue, out'[1].event)
                                /\ out'[1].event = RenderFullOf(ret'.arg)
          /\ ret'.val = FALSE => out' = <<>> /\ rx' = rx
       ]_vars

\* C2 happens: one of the calls has published and returned true, while
\* another, which passed the test under the read lock before that, has yet
\* to take the write lock.
C2_Witness ==
  /\ ret.op = "update_content"
  /\ ret.val = TRUE
  /\ Len(rx[1].queue) = 1
  /\ \E p \in DupTasks : pc[p] = "update_write" /\ local[p].snapshot = ret.arg

\* C4: rerender_content on an existing Session returns true, overwrites the
\* content-derived fields and publishes exactly one RenderFull, whether or
\* not the Session already records the snapshot; without a Session it returns
\* false and changes nothing.
C4_RerenderAlways ==
  [][\A p \in Tasks, s \in ContentSnapshots :
       RerenderContent(p, s) =>
         IF Has(s.bufnr)
         THEN /\ ret' = [op |-> "rerender_content", arg |-> s, val |-> TRUE]
              /\ DOMAIN sessions' = DOMAIN sessions
              /\ HoldsContent(sessions'[s.bufnr], s)
              /\ out' = <<Sent(sessions[s.bufnr].broadcaster, RenderFullOf(s))>>
         ELSE /\ ret' = [op |-> "rerender_content", arg |-> s, val |-> FALSE]
              /\ out' = <<>>
              /\ sessions' = sessions
    ]_vars

\* C4 happens: rerender_content has just returned true and published the
\* RenderFull of its snapshot.
C4_Witness ==
  /\ ret.op = "rerender_content"
  /\ ret.val = TRUE
  /\ Has(ret.arg.bufnr)
  /\ HoldsContent(sessions[ret.arg.bufnr], ret.arg)
  /\ out = <<Sent(sessions[ret.arg.bufnr].broadcaster, RenderFullOf(ret.arg))>>

\* C5: update_cursor on an existing Session returns false and publishes
\* nothing when (line, col) is the recorded position; otherwise it records the
\* position, publishes exactly one CursorMove and returns true.  Either way
\* html, change sequence, digest and lifecycle state stay as they are.
C5_UpdateCursor ==
  [][\A p \in Tasks, b \in ContentDocs, line \in CursorLines, col \in CursorCols :
       (UpdateCursor(p, b, line, col) /\ Has(b)) =>
         /\ ret'.op = "update_cursor"
         /\ IF sessions[b].cursor_line = line /\ sessions[b].cursor_col = col
            THEN ret'.val = FALSE /\ out' = <<>> /\ sessions' = sessions
            ELSE /\ ret'.val = TRUE
                 /\ sessions'[b].cursor_line = line
                 /\ sessions'[b].cursor_col = col
                 /\ out' = <<Sent(sessions[b].broadcaster, CursorMove(b, line, col))>>
         /\ DOMAIN sessions' = DOMAIN sessions
         /\ sessions'[b].html = sessions[b].html
         /\ sessions'[b].changedtick = sessions[b].changedtick
         /\ sessions'[b].content_hash = sessions[b].content_hash
         /\ sessions'[b].state = sessions[b].state
    ]_vars

\* C5 happens: update_cursor has just moved the cursor of a paused Session
\* away from the position its last content snapshot gave, and returned true.
C5_Witness ==
  /\ ret.op = "update_cursor"
  /\ ret.val = TRUE
  /\ Has(ret.arg)
  /\ sessions[ret.arg].state = "Paused"
  /\ sessions[ret.arg].cursor_line = ret.line
  /\ sessions[ret.arg].cursor_col = ret.col
  /\ sessions[ret.arg].html = render(<<"a">>)
  /\ ret.line = 1 /\ ret.col = 1
  /\ out = <<Sent(sessions[ret.arg].broadcaster, CursorMove(ret.arg, 1, 1))>>

\* C6: start_session ends with a Session for the snapshot's document, whatever
\* was there before: the step under the map's lock leaves it in the map, in
\* state Running, with html = render(text) and the snapshot's change
\* sequence, digest and cursor, and publishes exactly one RenderFull on its
\* hub; the step that completes the call makes the document the active one
\* and touches neither the map nor the hubs.
C6_StartEstablishesSession ==
  [][\A p \in Tasks, s \in ContentSnapshots :
       /\ StartSession(p, s) =>
            /\ s.bufnr \in DOMAIN sessions'
            /\ sessions'[s.bufnr].state = "Running"
            /\ HoldsContent(sessions'[s.bufnr], s)
            /\ out' = <<Sent(sessions'[s.bufnr].broadcaster, RenderFullOf(s))>>
            /\ pc'[p] = "start_active"
       /\ (StartSetActive(p) /\ local[p].bufnr = s.bufnr) =>
            /\ ret' = [op |-> "start_session", arg |-> s.bufnr]
            /\ active_bufnr' = Some(s.bufnr)
            /\ sessions' = sessions
            /\ rx' = rx
            /\ out' = <<>>
    ]_vars

\* C6 happens: a start for document 1 has just completed while the other
\* task is inside an update_content; document 1 is active and its Session is
\* Running with the html of an escaped text and a trimmed source path.
C6_Witness ==
  /\ ret = [op |-> "start_session", arg |-> 1]
  /\ active_bufnr = Some(1)
  /\ Has(1)
  /\ sessions[1].state = "Running"
  /\ sessions[1].html = render(<<"<">>)
  /\ sessions[1].cursor_line = 2
  /\ sessions[1].source_path = Some(<<"d", "/", "f">>)
  /\ \E q \in Tasks : pc[q] = "update_write"

\* C7: the map holds one Session per document, each with a hub of its own; a
\* Session keeps its hub for as long as it is in the map; a start for a
\* document that has a Session leaves the number of Sessions and the hub as
\* they are, and every stream open on that hub stays open and is sent the
\* RenderFull; a start for a document without one creates a hub that did not
\* exist.
C7_OneSessionOneHub ==
  /\ [](/\ \A b \in DOMAIN sessions : sessions[b].bufnr = b
        /\ \A b1, b2 \in DOMAIN sessions :
             sessions[b1].broadcaster = sessions[b2].broadcaster => b1 = b2)
  /\ [][/\ \A b \in DOMAIN sessions \cap DOMAIN sessions' :
             sessions'[b].broadcaster = sessions[b].broadcaster
        /\ \A p \in Tasks, s \in Snapshots :
             StartSession(p, s) =>
               IF Has(s.bufnr)
               THEN /\ Cardinality(DOMAIN sessions') = session_count
                    /\ sessions'[s.bufnr].subscribers = sessions[s.bufnr].subscribers
                    /\ DOMAIN rx' = DOMAIN rx
                    /\ \A c \in DOMAIN rx :
                         /\ rx'[c].hub = rx[c].hub
                         /\ rx[c].hub = sessions[s.bufnr].broadcaster =>
                              rx'[c].queue = Append(rx[c].queue, RenderFullOf(s))
               ELSE /\ Cardinality(DOMAIN sessions') = session_count + 1
                    /\ sessions'[s.bufnr].broadcaster \notin LiveHubs
       ]_vars

\* C7 happens: a second start for a document has just committed, and a stream
\* opened on its Session before that holds the RenderFull of that start.
C7_Witness ==
  \E p \in Tasks, c \in DOMAIN rx :
    /\ pc[p] = "start_active"
    /\ Has(local[p].bufnr)
    /\ rx[c].hub = sessions[local[p].bufnr].broadcaster
    /\ c \in sessions[local[p].bufnr].subscribers
    /\ Len(out) = 1
    /\ out[1].event.type = "render_full"
    /\ out[1].hub = rx[c].hub
    /\ rx[c].queue # <<>>
    /\ rx[c].queue[Len(rx[c].queue)] = out[1].event

\* C8: stop_session on a document with a Session removes that Session and no
\* other, sends exactly one SessionEnd{doc, reason} on its hub, which every
\* stream open on it receives and no other stream does, and goes on to
\* return true after setting the active document to none if it was this
\* document, and leaving it otherwise; on a document without a Session it
\* returns false and changes nothing.
C8_StopSession ==
  [][\A p \in Tasks, b \in Docs :
       /\ \A reason \in Reasons :
            StopSession(p, b, reason) =>
              IF Has(b)
              THEN /\ DOMAIN sessions' = DOMAIN sessions \ {b}
                   /\ \A x \in DOMAIN sessions' : sessions'[x] = sessions[x]
                   /\ out' = <<Sent(sessions[b].broadcaster, SessionEnd(b, reason))>>
                   /\ DOMAIN rx' = DOMAIN rx
                   /\ \A c \in DOMAIN rx :
                        rx'[c].queue =
                          IF rx[c].hub = sessions[b].broadcaster
                          THEN Append(rx[c].queue, SessionEnd(b, reason))
                          ELSE rx[c].queue
                   /\ active_bufnr' = active_bufnr
                   /\ pc'[p] = "stop_active"
              ELSE /\ ret' = [op |-> "stop_session", arg |-> b, val |-> FALSE]
                   /\ sessions' = sessions
                   /\ active_bufnr' = active_bufnr
                   /\ rx' = rx
                   /\ out' = <<>>
       /\ (StopSessionActive(p) /\ local[p].bufnr = b) =>
            /\ ret' = [op |-> "stop_session", arg |-> b, val |-> TRUE]
            /\ active_bufnr' = None <=> (active_bufnr = Some(b) \/ active_bufnr = None)
            /\ active_bufnr' # None => active_bufnr' = active_bufnr
            /\ sessions' = sessions
            /\ rx' = rx
            /\ out' = <<>>
    ]_vars

\* C8 happens: a stop of document 1 has just returned true; the stream that
\* was open on it holds its SessionEnd, the Session of document 2 is still
\* there and document 2 is still the active one.
C8_Witness ==
  /\ ret = [op |-> "stop_session", arg |-> 1, val |-> TRUE]
  /\ ~Has(1) /\ Has(2)
  /\ active_bufnr = Some(2)
  /\ \E c \in DOMAIN rx :
       /\ rx[c].bufnr = 1
       /\ rx[c].queue # <<>>
       /\ rx[c].queue[Len(rx[c].queue)] = SessionEnd(1, "BufferClosed")

\* C9: a Session that a stop has taken out of the map while its SessionEnd is
\* still to be sent does not exist: as long as the SessionEnd of a Session is
\* unpublished, has_session, snapshot, subscribe and session_count find the
\* Session in the map.
C9_SessionEndBeforeUnreachable ==
  \A p \in Tasks :
    pc[p] = "stop_all_send" =>
      \A s \in local[p].removed :
        has_session(s.bufnr) /\ sessions[s.bufnr].broadcaster = s.broadcaster

\* C10: stop_all empties the map and takes every Session of it along; it
\* sends each of them one SessionEnd with the reason of the call, which every
\* stream open on that Session receives, and nobody else can send on these
\* hubs meanwhile; it returns only when all are sent, with the active
\* document set to none and, unless a start has committed since the map
\* was emptied, with no Session in the map.
C10_StopAll ==
  /\ [](\A p \in Tasks : \A s \in Held(p) :
          /\ \A b \in DOMAIN sessions : sessions[b].broadcaster # s.broadcaster
          /\ \A q \in Tasks \ {p} : \A t \in Held(q) : t.broadcaster # s.broadcaster)
  /\ [][\A p \in Tasks :
          /\ \A reason \in Reasons :
               StopAll(p, reason) =>
                 /\ sessions' = <<>>
                 /\ pc'[p] = "stop_all_send"
                 /\ local'[p].reason = reason
                 /\ local'[p].removed =
                      {[bufnr |-> b, broadcaster |-> sessions[b].broadcaster,
                        state |-> sessions[b].state] : b \in DOMAIN sessions}
                 /\ rx' = rx
          /\ StopAllSend(p) =>
               \E s \in local[p].removed :
                 LET ev == SessionEnd(s.bufnr, local[p].reason)
                 IN /\ local'[p].removed = local[p].removed \ {s}
                    /\ out' = <<Sent(s.broadcaster, ev)>>
                    /\ DOMAIN rx' = DOMAIN rx
                    /\ \A c \in DOMAIN rx :
                         rx'[c].queue = IF rx[c].hub = s.broadcaster
                                        THEN Append(rx[c].queue, ev)
                                        ELSE rx[c].queue
          /\ StopAllActive(p) =>
               /\ local[p].removed = {}
               /\ ret'.op = "stop_all"
               /\ active_bufnr' = None
               /\ ~local[p].raced =>
                    /\ Cardinality(DOMAIN sessions') = 0
                    /\ \A b \in Docs : b \notin DOMAIN sessions'
       ]_vars

\* C10 happens: a stop_all(Stopped) that no start raced with has just
\* returned; there is no Session and no active document, and the stream that
\* was open holds the SessionEnd of its document with the reason Stopped,
\* which only stop_all sends in this scenario, while the other task is
\* completing a stop of its own.
C10_Witness ==
  /\ ret = [op |-> "stop_all", raced |-> FALSE]
  /\ session_count = 0
  /\ active_bufnr = None
  /\ \E q \in Tasks : pc[q] = "stop_active"
  /\ \E c \in DOMAIN rx :
       /\ rx[c].queue # <<>>
       /\ rx[c].queue[Len(rx[c].queue)] = SessionEnd(rx[c].bufnr, "Stopped")

\* The SessionEnd of hub h has been sent: no Session of the map owns the hub
\* and no stop_all still has to send on it.
Ended(h) ==
  /\ \A b \in DOMAIN sessions : sessions[b].broadcaster # h
  /\ \A p \in AllTasks :
       pc[p] = "stop_all_send" => \A s \in local[p].removed : s.broadcaster # h

\* Stream c has taken the SessionEnd of its hub: the hub's SessionEnd has been
\* sent and the receiver holds nothing.
GotSessionEnd(c) ==
  c \in DOMAIN rx /\ rx[c].queue = <<>> /\ Ended(rx[c].hub)

\* C11: SessionEnd is the last event of a subscription.  Nothing is ever
\* queued behind a SessionEnd; the step in which a stream takes its SessionEnd
\* leaves its receiver empty on a hub whose Session is gone; from then on the
\* receiver stays empty, whatever is started or published afterwards, until
\* the stream is gone; and the stream does end.
C11_SessionEndTerminal ==
  /\ [](\A c \in DOMAIN rx : \A i \in 1..Len(rx[c].queue) :
          rx[c].queue[i].type = "session_end" =>
            i = Len(rx[c].queue) /\ rx[c].queue[i].bufnr = rx[c].bufnr)
  /\ [][\A c \in DOMAIN rx :
          /\ (EventsRecv(c) /\ Head(rx[c].queue).type = "session_end") =>
               (c \in DOMAIN rx' /\ rx'[c].queue = <<>> /\ Ended(rx[c].hub)')
          /\ GotSessionEnd(c) =>
               \/ c \notin DOMAIN rx'
               \/ /\ rx'[c] = rx[c]
                  /\ Ended(rx[c].hub)'
                  /\ \A i \in 1..Len(out') : out'[i].hub # rx[c].hub
       ]_vars
  /\ \A c \in 1..MaxClients : GotSessionEnd(c) ~> (c \notin DOMAIN rx)

\* C11 happens: a stream of document 1 has taken its SessionEnd and is still
\* open, a new Session of document 1 has been started since and has just
\* published a cursor move, and the stream holds nothing.
C11_Witness ==
  \E c \in DOMAIN rx :
    /\ GotSessionEnd(c)
    /\ rx[c].bufnr = 1
    /\ Has(1)
    /\ sessions[1].broadcaster # rx[c].hub
    /\ ret.op = "update_cursor" /\ ret.val = TRUE
    /\ out = <<Sent(sessions[1].broadcaster, CursorMove(1, 1, 1))>>

\* The step changes neither the map nor any receiver and sends nothing.
NoEffect == out' = <<>> /\ sessions' = sessions /\ rx' = rx

\* C12: a stop takes the Session out of the map in the step that sends its
\* SessionEnd; and whenever the document has no Session, update_content (at
\* its read lock, and at its write lock after a render that began while the
\* Session was there), rerender_content, update_cursor, subscribe and
\* snapshot return false or none, send nothing and leave every receiver as it
\* is, its unread SessionEnd included.
C12_StopEffectiveImmediately ==
  [][\A p \in Tasks, b \in ContentDocs :
       /\ (StopSession(p, b, "Stopped") /\ Has(b)) =>
            /\ b \notin DOMAIN sessions'
            /\ out' = <<Sent(sessions[b].broadcaster, SessionEnd(b, "Stopped"))>>
       /\ ~Has(b) =>
            /\ \A s \in RaceSnapshots :
                 /\ UpdateContentRead(p, s) => (ret'.val = FALSE /\ NoEffect)
                 /\ (UpdateContentWrite(p) /\ local[p].snapshot = s) =>
                      /\ ret' = [op |-> "update_content", arg |-> s, val |-> FALSE]
                      /\ NoEffect
                 /\ RerenderContent(p, s) => (ret'.val = FALSE /\ NoEffect)
            /\ \A col \in CursorCols :
                 UpdateCursor(p, b, 1, col) => (ret'.val = FALSE /\ NoEffect)
            /\ EventsOpen(b) => (ret'.val = FALSE /\ NoEffect)
            /\ SnapshotFor(b) => (ret'.val = None /\ NoEffect)
    ]_vars

\* C12 happens: an update_content that passed the test under the read lock
\* before a stop has just come back from the write lock with false; the
\* stopping task has not returned yet and the stream still holds the unread
\* SessionEnd.
C12_Witness ==
  /\ ret.op = "update_content"
  /\ ret.val = FALSE
  /\ ret.arg.bufnr = 1
  /\ ~Has(1)
  /\ \E q \in Tasks : pc[q] = "stop_active" /\ local[q].bufnr = 1
  /\ \E c \in DOMAIN rx :
       /\ rx[c].bufnr = 1
       /\ rx[c].queue # <<>>
       /\ rx[c].queue[Len(rx[c].queue)] = SessionEnd(1, "Stopped")
       /\ Len(rx[c].queue) >= 2

\* The step leaves the store as it is: the map, the active document and the
\* receivers unchanged, nothing sent.
StoreUnchanged ==
  /\ sessions' = sessions
  /\ active_bufnr' = active_bufnr
  /\ rx' = rx
  /\ out' = <<>>

\* C13: on a document without a Session, update_content, rerender_content
\* and update_cursor return false, stop_session returns false, snapshot
\* returns none and subscribe answers that there is no Session; each returns
\* at once and leaves the map (the Sessions of other documents included), the
\* active document and every receiver as they are, and sends nothing.
C13_AbsentSessionNoEffect ==
  [][\A p \in Tasks, b \in Docs :
       ~Has(b) =>
         /\ \A s \in RaceUpdates :
              s.bufnr = b =>
                /\ UpdateContentRead(p, s) =>
                     /\ ret' = [op |-> "update_content", arg |-> s, val |-> FALSE]
                     /\ StoreUnchanged
                /\ RerenderContent(p, s) =>
                     /\ ret' = [op |-> "rerender_content", arg |-> s, val |-> FALSE]
                     /\ StoreUnchanged
         /\ \A col \in CursorCols :
              UpdateCursor(p, b, 1, col) =>
                /\ ret'.op = "update_cursor" /\ ret'.val = FALSE
                /\ StoreUnchanged
         /\ StopSession(p, b, "Stopped") =>
              /\ ret' = [op |-> "stop_session", arg |-> b, val |-> FALSE]
              /\ pc'[p] = "idle"
              /\ StoreUnchanged
         /\ SnapshotFor(b) =>
              /\ ret' = [op |-> "snapshot", arg |-> b, val |-> None]
              /\ StoreUnchanged
         /\ EventsOpen(b) =>
              /\ ret' = [op |-> "subscribe", arg |-> b, val |-> FALSE]
              /\ StoreUnchanged
    ]_vars

\* C13 happens: update_cursor on document 2, which has no Session, has just
\* returned false, while document 1 has a Session with a viewer and is the
\* active one.
C13_Witness ==
  /\ ret.op = "update_cursor"
  /\ ret.arg = 2
  /\ ret.val = FALSE
  /\ ~Has(2)
  /\ Has(1)
  /\ sessions[1].subscribers # {}
  /\ active_bufnr = Some(1)

\* The events of a step that went to hub h, in the order they were sent.
PublishedOn(h, sent) ==
  LET OnHub(e) == e.hub = h
      picked == SelectSeq(sent, OnHub)
  IN [i \in 1..Len(picked) |-> picked[i].event]

\* C16: in every step, what a stream that stays open holds afterwards is what
\* it held, less events taken from the front, followed by the events the step
\* published on its hub, in the order of publication; a stream that opens
\* holds nothing.  So a stream takes events in the order in which the
\* operations that published them held the map's write lock.
C16_PublishOrderKept ==
  [][\A c \in DOMAIN rx' :
       IF c \in DOMAIN rx
       THEN /\ rx'[c].hub = rx[c].hub
            /\ \E k \in 0..Len(rx[c].queue) :
                 rx'[c].queue =
                   SubSeq(rx[c].queue, k + 1, Len(rx[c].queue))
                     \o PublishedOn(rx[c].hub, out')
       ELSE rx'[c].queue = <<>>
    ]_vars

\* C16 happens: a stream holds a cursor move and, behind it, the RenderFull
\* that an update_content of the other task has just published.
C16_Witness ==
  \E c \in DOMAIN rx :
    /\ Len(rx[c].queue) = 2
    /\ rx[c].queue[1].type = "cursor_move"
    /\ rx[c].queue[2].type = "render_full"
    /\ ret.op = "update_content" /\ ret.val = TRUE
    /\ out = <<Sent(rx[c].hub, rx[c].queue[2])>>
    /\ \E q \in Tasks : pc[q] # "idle"

\* The Sessions that exist, each named by its hub: those of the map and
\* those a stop holds.
InMap(h) == \E b \in DOMAIN sessions : sessions[b].broadcaster = h
SessionHubs ==
  {sessions[b].broadcaster : b \in DOMAIN sessions}
  \cup UNION { {s.broadcaster : s \in Held(p)} : p \in AllTasks }

\* The lifecycle state of the Session of hub h.
StateOf(h) ==
  IF InMap(h)
  THEN sessions[CHOOSE b \in DOMAIN sessions : sessions[b].broadcaster = h].state
  ELSE LET holder == CHOOSE p \in AllTasks : \E s \in Held(p) : s.broadcaster = h
       IN (CHOOSE s \in Held(holder) : s.broadcaster = h).state

\* C14: a Session in the map is Running or Paused.  A Session comes into
\* being only by a start, which leaves it Running, with a hub of its own and
\* no subscriber.  A Session that exists before and after a step keeps its state or
\* goes from Running to Paused (pause), from Paused to Running (resume or
\* start), or from Running or Paused to Stopped (stop_session).  A Session
\* ceases to exist only when it is Stopped or in the iteration of stop_all that
\* marks it Stopped; one that has left the map never comes back into it.
C14_Lifecycle ==
  /\ [](\A b \in DOMAIN sessions : sessions[b].state \in {"Running", "Paused"})
  /\ [][\A h \in SessionHubs \cup SessionHubs' :
          LET IsPause == \E p \in Tasks, b \in ContentDocs : PauseSession(p, b)
              IsResume == \E p \in Tasks, b \in ContentDocs : ResumeSession(p, b)
              IsStart == \E p \in Tasks, s \in ViewerSnapshots : StartSession(p, s)
              IsStop ==
                \E p \in Tasks, b \in ContentDocs : StopSession(p, b, "Stopped")
              IsStopAllIteration == \E p \in Tasks : StopAllSend(p)
          IN IF h \notin SessionHubs
             THEN /\ IsStart
                  /\ InMap(h)'
                  /\ StateOf(h)' = "Running"
                  /\ h \notin LiveHubs
                  /\ \A b \in DOMAIN sessions' :
                       sessions'[b].broadcaster = h => sessions'[b].subscribers = {}
             ELSE IF h \notin SessionHubs'
             THEN /\ ~InMap(h)
                  /\ StateOf(h) = "Stopped" \/ IsStopAllIteration
             ELSE /\ InMap(h)' => InMap(h)
                  /\ \/ StateOf(h)' = StateOf(h)
                     \/ /\ StateOf(h) = "Running" /\ StateOf(h)' = "Paused"
                        /\ IsPause
                     \/ /\ StateOf(h) = "Paused" /\ StateOf(h)' = "Running"
                        /\ IsResume \/ IsStart
                     \/ /\ StateOf(h) \in {"Running", "Paused"}
                        /\ StateOf(h)' = "Stopped"
                        /\ IsStop
       ]_vars

\* C14 happens: a stop of document 1 holds the Stopped Session, which a
\* viewer still listens to, while a Session started for document 1 since then
\* is in the map with another hub and no subscriber, and is already Paused.
C14_Witness ==
  \E q \in Tasks :
    /\ pc[q] = "stop_active"
    /\ local[q].session.state = "Stopped"
    /\ Has(1)
    /\ sessions[1].broadcaster # local[q].session.broadcaster
    /\ sessions[1].state = "Paused"
    /\ sessions[1].subscribers = {}
    /\ \E c \in DOMAIN rx : rx[c].hub = local[q].session.broadcaster

\* The map after the step is the map before it with the lifecycle state of
\* document b, if it has a Session, set to st.
OnlyStateSet(b, st) ==
  sessions' = IF Has(b) THEN [sessions EXCEPT ![b].state = st] ELSE sessions

\* C15: pause_session sets the state of the document's Session to Paused and
\* changes nothing else; resume_session sets it to Running and changes
\* nothing else in the map, and completes by making the document the active
\* one; neither sends an event.  On a Paused Session update_content (when the
\* snapshot is not the recorded one), rerender_content and update_cursor
\* (when the position is not the recorded one) return true, record what they
\* are given, publish their event and leave the Session Paused.
C15_PauseResumeStateOnly ==
  [][\A p \in Tasks, b \in ContentDocs :
       /\ PauseSession(p, b) =>
            /\ OnlyStateSet(b, "Paused")
            /\ active_bufnr' = active_bufnr
            /\ out' = <<>> /\ rx' = rx
            /\ ret' = [op |-> "pause_session", arg |-> b]
       /\ ResumeSession(p, b) =>
            /\ OnlyStateSet(b, "Running")
            /\ active_bufnr' = active_bufnr
            /\ out' = <<>> /\ rx' = rx
            /\ pc'[p] = "resume_active" /\ local'[p].bufnr = b
       /\ (ResumeSetActive(p) /\ local[p].bufnr = b) =>
            /\ active_bufnr' = Some(b)
            /\ sessions' = sessions
            /\ out' = <<>> /\ rx' = rx
            /\ ret' = [op |-> "resume_session", arg |-> b]
       /\ (Has(b) /\ sessions[b].state = "Paused") =>
            /\ \A s \in ContentSnapshots :
                 /\ (/\ UpdateContentWrite(p)
                      /\ local[p].snapshot = s
                      /\ ~Records(sessions[b], s)) =>
                      /\ ret' = [op |-> "update_content", arg |-> s, val |-> TRUE]
                      /\ HoldsContent(sessions'[b], s)
                      /\ sessions'[b].state = "Paused"
                      /\ out' = <<Sent(sessions[b].broadcaster, RenderFullOf(s))>>
                 /\ RerenderContent(p, s) =>
                      /\ ret' = [op |-> "rerender_content", arg |-> s, val |-> TRUE]
                      /\ HoldsContent(sessions'[b], s)
                      /\ sessions'[b].state = "Paused"
                      /\ out' = <<Sent(sessions[b].broadcaster, RenderFullOf(s))>>
            /\ \A line \in CursorLines, col \in CursorCols :
                 (/\ UpdateCursor(p, b, line, col)
                  /\ <<sessions[b].cursor_line, sessions[b].cursor_col>> # <<line, col>>) =>
                   /\ ret'.val = TRUE
                   /\ sessions'[b] = [sessions[b] EXCEPT !.cursor_line = line,
                                                         !.cursor_col = col]
                   /\ out' = <<Sent(sessions[b].broadcaster, CursorMove(b, line, col))>>
    ]_vars

\* C15 happens: update_content has just returned true on a Paused Session,
\* which holds the new content and is still Paused, while the other task is
\* between the two steps of a resume.
C15_Witness ==
  /\ ret.op = "update_content"
  /\ ret.val = TRUE
  /\ Has(1)
  /\ sessions[1].state = "Paused"
  /\ HoldsContent(sessions[1], ret.arg)
  /\ out = <<Sent(sessions[1].broadcaster, RenderFullOf(ret.arg))>>
  /\ \E q \in Tasks : pc[q] = "resume_active" /\ local[q].bufnr = 1

\* Every receiver whose viewer keeps reading is within the model's backlog.
ReadersKeepUp ==
  \A c \in DOMAIN rx : ~rx[c].stalled => Len(rx[c].queue) < MaxQueue

\* A receiver of document b's hub that is stalled and full.
FullReceiver(b) ==
  \E c \in DOMAIN rx :
    /\ rx[c].hub = sessions[b].broadcaster
    /\ rx[c].stalled
    /\ Len(rx[c].queue) = EVENT_CHANNEL_CAPACITY

\* C17: a publisher never waits for a receiver and never fails.  Whatever the
\* stalled receivers hold, and also without any receiver, a task that is not
\* inside a call can take the first step of start, update_content,
\* rerender_content, update_cursor, stop and stop_all, and a task inside one
\* of them can take its next step.  The step of a content or cursor operation
\* that finds something new commits it and returns true (start goes on to its
\* second step), that of a stop removes the Session; when no receiver listens
\* on the hub the event goes nowhere.
C17_PublishNeverBlocks ==
  /\ [](\A p \in StreamTasks :
          /\ (pc[p] = "idle" /\ ReadersKeepUp) =>
               /\ \A s \in RaceSnapshots :
                    /\ ENABLED StartSession(p, s)
                    /\ ENABLED UpdateContentRead(p, s)
                    /\ ENABLED RerenderContent(p, s)
               /\ \A b \in ContentDocs :
                    /\ \A col \in CursorCols : ENABLED UpdateCursor(p, b, 1, col)
                    /\ ENABLED StopSession(p, b, "Stopped")
               /\ \A reason \in Reasons : ENABLED StopAll(p, reason)
          /\ (pc[p] = "update_write" /\ ReadersKeepUp) => ENABLED UpdateContentWrite(p)
          /\ pc[p] = "start_active" => ENABLED StartSetActive(p)
          /\ pc[p] = "stop_active" => ENABLED StopSessionActive(p)
          /\ pc[p] = "stop_all_send" => ENABLED (StopAllSend(p) \/ StopAllActive(p)))
  /\ [][\A p \in StreamTasks, b \in ContentDocs :
          LET h == sessions[b].broadcaster
              Unheard == \A c \in DOMAIN rx : rx[c].hub # h
              Published(ev) == /\ out' = <<Sent(h, ev)>>
                               /\ Unheard => rx' = rx
          IN Has(b) =>
               /\ \A s \in RaceSnapshots :
                    /\ StartSession(p, s) =>
                         /\ HoldsContent(sessions'[b], s)
                         /\ pc'[p] = "start_active"
                         /\ Published(RenderFullOf(s))
                    /\ (/\ UpdateContentWrite(p)
                         /\ local[p].snapshot = s
                         /\ ~Records(sessions[b], s)) =>
                         /\ HoldsContent(sessions'[b], s)
                         /\ ret'.val = TRUE
                         /\ Published(RenderFullOf(s))
                    /\ RerenderContent(p, s) =>
                         /\ HoldsContent(sessions'[b], s)
                         /\ ret'.val = TRUE
                         /\ Published(RenderFullOf(s))
               /\ \A col \in CursorCols :
                    (UpdateCursor(p, b, 1, col) /\ sessions[b].cursor_col # col) =>
                      /\ sessions'[b].cursor_col = col
                      /\ ret'.val = TRUE
                      /\ Published(CursorMove(b, 1, col))
               /\ StopSession(p, b, "Stopped") =>
                    /\ ~Has(b)'
                    /\ pc'[p] = "stop_active"
                    /\ Published(SessionEnd(b, "Stopped"))
       ]_vars

\* C17 happens: rerender_content has just committed and returned true while
\* a stalled receiver of the hub was full, and is full still, now with the
\* RenderFull as its newest event.
C17_Witness ==
  /\ ret.op = "rerender_content"
  /\ ret.val = TRUE
  /\ Has(1)
  /\ HoldsContent(sessions[1], ret.arg)
  /\ FullReceiver(1)
  /\ \A c \in DOMAIN rx :
       rx[c].stalled => rx[c].queue[Len(rx[c].queue)] = RenderFullOf(ret.arg)

\* C18: every receiver has a queue of its own of at most
\* EVENT_CHANNEL_CAPACITY events.  An event sent on a hub is appended to every
\* receiver of the hub; a receiver that is full loses its oldest event for
\* it and no other, a receiver that is not full loses nothing, whatever the
\* other receivers of the hub hold.  A stream takes the oldest event its
\* receiver holds and leaves the rest, and the other receivers, as they are.
C18_BoundedQueuePerSubscriber ==
  /\ [](\A c \in DOMAIN rx : Len(rx[c].queue) <= EVENT_CHANNEL_CAPACITY)
  /\ [][/\ \A c \in DOMAIN rx \cap DOMAIN rx' :
             \A i \in 1..Len(out') :
               out'[i].hub = rx[c].hub =>
                 rx'[c].queue =
                   IF Len(rx[c].queue) = EVENT_CHANNEL_CAPACITY
                   THEN Append(Tail(rx[c].queue), out'[i].event)
                   ELSE Append(rx[c].queue, out'[i].event)
        /\ \A c \in DOMAIN rx :
             EventsRecv(c) =>
               /\ rx'[c].queue = Tail(rx[c].queue)
               /\ \A d \in DOMAIN rx \ {c} : rx'[d] = rx[d]
       ]_vars

\* C18 happens: the stalled receiver is full and its oldest event is a
\* RenderFull that came when it was already full, so it has lost events ever
\* since; the cursor move just published is its newest event, and it is the
\* one event the reading receiver holds.
C18_Witness ==
  \E c, d \in DOMAIN rx :
    /\ rx[c].stalled /\ ~rx[d].stalled
    /\ rx[c].hub = rx[d].hub
    /\ Len(rx[c].queue) = EVENT_CHANNEL_CAPACITY
    /\ rx[c].queue[1].type = "render_full"
    /\ Len(out) = 1
    /\ out[1].event.type = "cursor_move"
    /\ rx[c].queue[EVENT_CHANNEL_CAPACITY] = out[1].event
    /\ rx[d].queue = <<out[1].event>>

\* C19: the subscriber set of a Session holds the client ids of the streams
\* that are open on it and no others: when a viewer has disconnected, its
\* client id is no longer in the subscriber set of the Session, which is still
\* in the map.
C19_DisconnectUnsubscribes ==
  \A b \in DOMAIN sessions :
    \A client_id \in sessions[b].subscribers :
      /\ client_id \in DOMAIN rx
      /\ rx[client_id].hub = sessions[b].broadcaster

\* C20: a stream that is open can yield a Heartbeat at any moment, whatever
\* its receiver holds and whether or not its Session is still there; the
\* Heartbeat names the stream's document; yielding it changes neither the
\* store nor any receiver and sends nothing; and no Heartbeat is ever sent on
\* a hub or held by a receiver.
C20_HeartbeatPerConnection ==
  /\ [](\A c \in DOMAIN rx :
          /\ ENABLED EventsHeartbeat(c)
          /\ \A i \in 1..Len(rx[c].queue) : rx[c].queue[i].type # "heartbeat")
  /\ [](\A i \in 1..Len(out) : out[i].event.type # "heartbeat")
  /\ [][\A c \in DOMAIN rx :
          EventsHeartbeat(c) =>
            /\ ret' = [op |-> "heartbeat", client |-> c,
                       event |-> [type |-> "heartbeat", bufnr |-> rx[c].bufnr]]
            /\ sessions' = sessions
            /\ active_bufnr' = active_bufnr
            /\ rx' = rx
            /\ out' = <<>>
            /\ pc' = pc
       ]_vars

\* C20 happens: a stream has just yielded a Heartbeat while its receiver
\* holds an event it has not taken; another stream is open on the same hub
\* and holds that event and nothing more.
C20_Witness ==
  \E c, d \in DOMAIN rx :
    /\ c # d
    /\ ret = [op |-> "heartbeat", client |-> c, event |-> Heartbeat(1)]
    /\ rx[c].hub = rx[d].hub
    /\ Len(rx[c].queue) = 1
    /\ rx[d].queue = rx[c].queue

\* C21: for one document, allow_content_emit returns true on the first call
\* and on every call made at least one content window after the last allowed
\* call, whose time is the start of the window from then on; it returns
\* false on every other call, and a rejected call leaves the start of the
\* window where it was.
C21_ContentWindow ==
  [][\A p \in Tasks :
       AllowContentEmit(p) =>
         LET at == local[p].now
             b == local[p].bufnr
             last == last_allowed.content[b]
             due == last = None \/ at >= last[1] + content_window
         IN /\ ret'.val = due
            /\ due => autocmd'.last_content_emit = Some([bufnr |-> b, at |-> at])
            /\ ~due => /\ autocmd'.last_content_emit = autocmd.last_content_emit
                       /\ autocmd.last_content_emit = Some([bufnr |-> b, at |-> last[1]])
  ]_vars

\* A call has just been rejected inside a window that an allowed call opened
\* after an earlier window had run out.
C21_Witness ==
  /\ ret.op = "allow_content_emit"
  /\ ~ret.val
  /\ last_allowed.content[ret.bufnr] # None
  /\ last_allowed.content[ret.bufnr][1] >= content_window
  /\ ret.at > last_allowed.content[ret.bufnr][1]

\* C22: the gate keeps its windows per document: whatever calls were made for
\* other documents in between, a content call for a document inside that
\* document's window returns false, and a cursor call for a document on that
\* document's last allowed line returns false.
C22_WindowPerDocument ==
  [][\A p \in Tasks :
       LET b == local[p].bufnr
           at == local[p].now
           content == last_allowed.content[b]
           cursor == last_allowed.cursor[b]
       IN /\ ( /\ AllowContentEmit(p)
               /\ content # None
               /\ at < content[1] + content_window ) => ~ret'.val
          /\ ( /\ AllowCursorEmit(p)
               /\ cursor # None
               /\ cursor[1].line = local[p].line ) => ~ret'.val
  ]_vars

\* C23: allow_cursor_emit(doc, line) returns false when line is the last
\* allowed line of doc, whatever the time; for another line it returns true
\* exactly when doc has no allowed cursor call yet or at least one cursor
\* window has passed since the last one; an allowed call records its line and
\* its time, a rejected call records nothing.
C23_CursorGate ==
  [][\A p \in Tasks :
       AllowCursorEmit(p) =>
         LET b == local[p].bufnr
             at == local[p].now
             line == local[p].line
             last == last_allowed.cursor[b]
             due == IF last # None /\ last[1].line = line
                    THEN FALSE
                    ELSE last = None \/ at >= last[1].at + cursor_window
         IN /\ ret'.val = due
            /\ due => autocmd'.last_cursor_emit =
                        Some([bufnr |-> b, at |-> at, line |-> line])
            /\ ~due => autocmd'.last_cursor_emit = autocmd.last_cursor_emit
  ]_vars

\* The slot holds a call of document b.
Holds(slot, b) == slot # None /\ slot[1].bufnr = b

\* C24: clear_buffer(doc) drops what the gate holds of doc, its content window
\* and its cursor window and line, so that the next content call and the next
\* cursor call for doc, on any line and at any time, return true; clearing a
\* document of which the gate holds nothing, and clearing a second time,
\* change nothing; what the gate holds of another document stays.
C24_ClearBuffer ==
  [][\A p \in Tasks :
       /\ \A b \in Docs :
            ClearBuffer(p, b) =>
              /\ ~Holds(autocmd'.last_content_emit, b)
              /\ ~Holds(autocmd'.last_cursor_emit, b)
              /\ ( ~Holds(autocmd.last_content_emit, b)
                   /\ ~Holds(autocmd.last_cursor_emit, b) ) => autocmd' = autocmd
              /\ (ret.op = "clear_buffer" /\ ret.bufnr = b) => autocmd' = autocmd
              /\ \A other \in Docs \ {b} :
                   /\ Holds(autocmd.last_content_emit, other)
                        => autocmd'.last_content_emit = autocmd.last_content_emit
                   /\ Holds(autocmd.last_cursor_emit, other)
                        => autocmd'.last_cursor_emit = autocmd.last_cursor_emit
       /\ ( /\ AllowContentEmit(p)
            /\ last_allowed.content[local[p].bufnr] = None ) => ret'.val
       /\ ( /\ AllowCursorEmit(p)
            /\ last_allowed.cursor[local[p].bufnr] = None ) => ret'.val
  ]_vars

\* Document 1 has just been cleared, for the second time in a row or not,
\* while the gate holds a cursor call of document 2 made before the clear.
C24_Witness ==
  /\ ret.op = "clear_buffer"
  /\ ret.bufnr = 1
  /\ autocmd.last_content_emit = None
  /\ Holds(autocmd.last_cursor_emit, 2)
  /\ last_allowed.cursor[2] # None
  /\ now > 0

\* Every event of the burst has been handled to the end.
BurstEnded ==
  \A p \in DOMAIN BurstEvents : pc[p] = "idle" /\ local[p] = NoLocal

\* C25: the gate never drops the last update: once a burst of text changes of
\* a document has been handled, the Session records the change sequence, the
\* digest and the html of the last event of the burst.
C25_LastUpdateKept ==
  BurstEnded =>
    LET final == BurstEvents[Len(BurstEvents)]
    IN /\ sessions[1].changedtick = final.changedtick
       /\ sessions[1].content_hash = content_hash(final.markdown)
       /\ sessions[1].html = render(final.markdown)

\* Some task is inside a critical section of the map's lock.
InCriticalSection == \E r \in AllTasks : pc[r] \in {"read_held", "write_held"}

\* C26: start_session, update_content and rerender_content render while
\* they hold neither the read nor the write lock of the map: a task that
\* waits for the lock is kept waiting only by a task inside a critical
\* section, never by one that renders, and a render step begins and ends
\* outside the critical sections of its task.
C26_RenderOutsideLock ==
  /\ [](\A q \in Tasks :
          /\ (pc[q] = "write_wait" /\ ~InCriticalSection) => ENABLED WriteLock(q)
          /\ (pc[q] = "read_wait" /\ ~InCriticalSection) => ENABLED ReadLock(q))
  /\ [][\A p \in Tasks :
          Render(p) =>
            /\ local[p].op \in RenderingOps
            /\ pc[p] \notin {"read_held", "write_held"}
            /\ pc'[p] \notin {"read_held", "write_held"}
            /\ UNCHANGED <<sessions, rx>>
     ]_vars

\* One task renders document 1 for an update_content, after its check under
\* the read lock, while the other is in the critical section of a write to
\* document 2.
C26_Witness ==
  \E p, q \in Tasks :
    /\ pc[p] = "rendering"
    /\ local[p].op = "update_content"
    /\ local[p].snapshot.bufnr = 1
    /\ pc[q] = "write_held"
    /\ local[q].snapshot.bufnr = 2

\* The content-derived fields of the Session all come from the snapshot.
ContentFrom(session, snapshot) ==
  /\ session.changedtick = snapshot.changedtick
  /\ session.content_hash = content_hash(snapshot.markdown)
  /\ session.html = render(snapshot.markdown)
  /\ session.source_path = snapshot_source_path(snapshot.source_path)

\* C27: no torn Session is observable: whatever start, update_content,
\* rerender_content, update_cursor and stop calls are under way on the
\* document, the Session in the map records the change sequence, the digest,
\* the html and the path of one and the same snapshot, and a snapshot read
\* returns the html and the file name of that snapshot.
C27_NoTornSession ==
  /\ [](\A b \in DOMAIN sessions :
          \E s \in ContentSnapshots : ContentFrom(sessions[b], s))
  /\ [][\A b \in ContentDocs :
          (SnapshotFor(b) /\ Has(b)) =>
            \E s \in ContentSnapshots :
              /\ ContentFrom(sessions[b], s)
              /\ ret'.val = IF sessions[b].state = "Stopped" THEN None
                            ELSE Some([bufnr |-> b,
                                       html |-> render(s.markdown),
                                       cursor_line |-> sessions[b].cursor_line,
                                       cursor_col |-> sessions[b].cursor_col,
                                       filename |->
                                         FileName(snapshot_source_path(s.source_path))])
     ]_vars

\* A snapshot of the document has just been read, of a Session whose content
\* was replaced after its start and whose cursor was moved since, while one
\* task is between the two locks of an update_content of it.
C27_Witness ==
  /\ ret.op = "snapshot"
  /\ ret.val # None
  /\ Has(1)
  /\ sessions[1].changedtick = 2
  /\ ret.val[1].html = sessions[1].html
  /\ \E s \in ContentSnapshots :
       /\ ContentFrom(sessions[1], s)
       /\ <<sessions[1].cursor_line, sessions[1].cursor_col>>
            # <<s.cursor_line, s.cursor_col>>
  /\ \E p \in Tasks : pc[p] = "update_write" /\ local[p].snapshot.changedtick = 1

NonDecreasing(lines) == \A i \in 1..(Len(lines) - 1) : lines[i] <= lines[i + 1]

\* The event the loop of task p has just rendered.
Rendered(p) == local[p].job.events[Len(local[p].job.events) - Len(local[p].rest)]

\* C29: the data-line markers render writes are non-decreasing in the order
\* of the output, whatever offsets the parser reports: the start of a block
\* whose offset maps to a line below the last line of the loop gets that last
\* line as its marker, any other its own line, and the marker written into
\* the html is that line.
C29_MarkersMonotonic ==
  /\ [](\A p \in Tasks :
          /\ pc[p] = "render_loop" => NonDecreasing(local[p].st.markers)
          /\ "done" \in DOMAIN local[p] =>
               \A i \in 1..Len(local[p].done) : NonDecreasing(local[p].done[i].markers))
  /\ [][\A p \in Tasks :
          ( /\ RenderEvent(p)
            /\ Head(local[p].rest).ev = "Start"
            /\ Head(local[p].rest).tag \in BlockTags ) =>
            LET event == Head(local[p].rest)
                reported == line_for_offset(event.at, local[p].line_starts)
                before == local[p].st
                marker == IF reported < before.last_line THEN before.last_line
                          ELSE reported
            IN /\ local'[p].st.markers = Append(before.markers, marker)
               /\ local'[p].st.output =
                    before.output \o
                      <<"<" \o TagName(event.tag) \o " data-line=\""
                            \o ToString(marker) \o "\">">>
               /\ \A i \in 1..Len(before.markers) : before.markers[i] <= marker
     ]_vars

\* The loop has just written a marker for a block that the parser reported on
\* a line below the marker before it.
C29_Witness ==
  \E p \in Tasks :
    /\ pc[p] = "render_loop"
    /\ Len(local[p].rest) < Len(local[p].job.events)
    /\ Rendered(p).ev = "Start"
    /\ Rendered(p).tag \in BlockTags
    /\ Len(local[p].st.markers) >= 2
    /\ line_for_offset(Rendered(p).at, local[p].line_starts)
         < local[p].st.markers[Len(local[p].st.markers) - 1]

\* The two characters are one letter, in whatever case.
SameLetter(a, b) ==
  \/ a = b
  \/ \E k \in 1..Len(UpperCase) : {a, b} = {UpperCase[k], LowerCase[k]}

\* The destination uses the scheme: it begins with it, white space before it
\* and the case of its letters aside.
UsesScheme(dest_url, scheme) ==
  LET written == TrimStart(dest_url)
  IN /\ Len(written) >= Len(scheme)
     /\ \A i \in 1..Len(scheme) : SameLetter(written[i], scheme[i])

\* C30: the destination of a link that uses the javascript:, vbscript: or
\* data: scheme is written as href="#"; the destination of an image that uses
\* javascript:, vbscript: or data: other than data:image/ is written as
\* src="#"; every other destination that is not empty is kept: written as it
\* is, trimmed and escaped.
C30_DestinationsSanitized ==
  [][\A p \in Tasks :
       ( /\ RenderEvent(p)
         /\ Head(local[p].rest).ev = "Start"
         /\ Head(local[p].rest).tag \in {"Link", "Image"}
         /\ local[p].st.image_titles = <<>> ) =>
         LET event == Head(local[p].rest)
             dest == event.dest_url
             before == local[p].st.output
             after == local'[p].st.output
             written == SubSeq(after, Len(before) + 1, Len(after))
             script == UsesScheme(dest, JAVASCRIPT) \/ UsesScheme(dest, VBSCRIPT)
             refused == IF event.tag = "Link"
                        THEN script \/ UsesScheme(dest, DATA)
                        ELSE script \/ ( /\ UsesScheme(dest, DATA)
                                         /\ ~UsesScheme(dest, DATA_IMAGE) )
             kept == push_escaped_attr(Trim(dest))
             Written(value) ==
               written = IF event.tag = "Link"
                         THEN <<"<a href=\"">> \o value \o <<"\"", ">">>
                         ELSE <<"<img src=\"">> \o value \o <<"\" alt=\"">>
         IN /\ SubSeq(after, 1, Len(before)) = before
            /\ refused => Written(<<"#">>)
            /\ (~refused /\ Trim(dest) # <<>>) => Written(kept)
  ]_vars

\* The loop has just written src="#" for an image whose destination, after
\* a blank, is a data: url other than data:image/.
C30_Witness ==
  \E p \in Tasks :
    /\ pc[p] = "render_loop"
    /\ Len(local[p].rest) < Len(local[p].job.events)
    /\ Rendered(p).ev = "Start"
    /\ Rendered(p).tag = "Image"
    /\ UsesScheme(Rendered(p).dest_url, DATA)
    /\ ~UsesScheme(Rendered(p).dest_url, DATA_IMAGE)
    /\ Head(Rendered(p).dest_url) = " "
    /\ LET output == local[p].st.output
       IN SubSeq(output, Len(output) - 2, Len(output))
            = <<"<img src=\"", "#", "\" alt=\"">>

\* The renders made so far, by any task.
Renders ==
  UNION { {local[p].done[i] : i \in 1..Len(local[p].done)} :
            p \in {q \in Tasks : "done" \in DOMAIN local[q]} }

Collected(p) ==
  IF pc[p] = "collect_loop"
  THEN [ids |-> local[p].hs.ids, bases |-> local[p].hs.bases]
  ELSE IF "ids" \in DOMAIN local[p]
  THEN [ids |-> local[p].ids, bases |-> local[p].bases]
  ELSE [ids |-> <<>>, bases |-> <<>>]

\* C32: the ids of the headings of one document are pairwise distinct.  A
\* heading whose base is not yet an id gets the base; one whose base is
\* already an id gets base-N, where N is greater than every N given to that
\* base before, base-N is no id yet, and every smaller N passed over is one
\* whose base-N is an id already.  Section, Section, Section-1, Section get
\* section, section-1, section-1-1, section-2.
C32_HeadingIdsDistinct ==
  \A p \in StreamTasks :
    LET ids == Collected(p).ids
        bases == Collected(p).bases
    IN /\ Len(ids) = Len(bases)
       /\ \A i, j \in 1..Len(ids) : i # j => ids[i] # ids[j]
       /\ \A i \in 1..Len(ids) :
            LET before == {ids[j] : j \in 1..(i - 1)}
                given == {n \in 1..Len(ids) :
                            \E j \in 1..(i - 1) :
                              bases[j] = bases[i] /\ ids[j] = Candidate(bases[i], n)}
            IN IF bases[i] \notin before THEN ids[i] = bases[i]
               ELSE \E n \in 1..Len(ids) :
                      /\ ids[i] = Candidate(bases[i], n)
                      /\ \A m \in given : m < n
                      /\ \A m \in 1..(n - 1) : Candidate(bases[i], m) \in before
       /\ bases = <<SECTION, SECTION, SECTION \o <<"-", "1">>, SECTION>> =>
            ids = <<SECTION, SECTION \o <<"-", "1">>,
                    SECTION \o <<"-", "1", "-", "1">>, SECTION \o <<"-", "2">>>>

\* The ids of Section, Section, Section-1, Section have been collected.
C32_Witness ==
  \E p \in StreamTasks :
    /\ pc[p] = "idle"
    /\ "ids" \in DOMAIN local[p]
    /\ local[p].blocks =
         <<Heading(None, SectionText), Heading(None, SectionText),
           Heading(None, SectionText \o <<"-", "1">>), Heading(None, SectionText)>>
    /\ local[p].ids[3] = SECTION \o <<"-", "1", "-", "1">>
    /\ ret.op = "collect_heading_ids"

\* The bases of the headings of a document as the rule of precedence gives
\* them, from block i on: the explicit id; else the fragment of the first
\* link into the document, not yet consumed, whose text matches the heading's;
\* else the slug of the text.  Two texts match when their normalized forms
\* are equal and, unless also_empty, not empty.
RECURSIVE BasesFrom(_, _, _, _)
BasesFrom(blocks, i, consumed, also_empty) ==
  IF i > Len(blocks) THEN <<>>
  ELSE IF blocks[i].kind # "heading"
  THEN BasesFrom(blocks, i + 1, consumed, also_empty)
  ELSE LET key == normalize_heading_lookup_text(blocks[i].text)
           matching ==
             {k \in 1..Len(blocks) \ consumed :
                /\ blocks[k].kind = "link"
                /\ internal_fragment_id(blocks[k].dest_url) # None
                /\ normalize_heading_lookup_text(blocks[k].text) = key
                /\ also_empty \/ key # <<>>}
           first == CHOOSE k \in matching : \A m \in matching : k <= m
       IN IF blocks[i].id # None
          THEN <<blocks[i].id[1]>>
               \o BasesFrom(blocks, i + 1, consumed, also_empty)
          ELSE IF matching # {}
          THEN <<internal_fragment_id(blocks[first].dest_url)[1]>>
               \o BasesFrom(blocks, i + 1, consumed \cup {first}, also_empty)
          ELSE <<slugify_heading(blocks[i].text)>>
               \o BasesFrom(blocks, i + 1, consumed, also_empty)

\* C33, as stated: the base of a heading is its explicit id if it has one;
\* else the fragment of a link into the document whose text has the same
\* normalized form as the heading's text, each link serving one heading at
\* most, in document order; else the slug of the text, or section.
C33_BaseByPrecedence ==
  \A p \in StreamTasks :
    pc[p] = "idle" /\ "ids" \in DOMAIN local[p] =>
      local[p].bases = BasesFrom(local[p].blocks, 1, {}, TRUE)

\* C33, amended: as stated, for links and headings whose normalized text is
\* not empty; a heading whose text holds no letter or digit takes no
\* fragment, and a link with such a text gives none.
C33_BaseByPrecedenceOfNamed ==
  \A p \in StreamTasks :
    pc[p] = "idle" /\ "ids" \in DOMAIN local[p] =>
      local[p].bases = BasesFrom(local[p].blocks, 1, {}, FALSE)

\* Two headings with the text of one link into the document have been
\* collected: the first took the fragment, the second the slug.
C33_Witness ==
  \E p \in StreamTasks :
    /\ pc[p] = "idle"
    /\ "ids" \in DOMAIN local[p]
    /\ local[p].blocks = <<Heading(None, <<"S">>), Link(<<"#", "x">>, <<"s", "!">>),
                           Heading(None, <<"S">>)>>
    /\ local[p].bases = <<<<"x">>, <<"s">>>>

\* The characters that are markup in html, and what stands for each in a
\* document whose markup characters are exchanged for letters.
Specials == {"&", "<", ">", "\"", "'"}
Entity(ch) ==
  CASE ch = "&" -> "&amp;" [] ch = "<" -> "&lt;" [] ch = ">" -> "&gt;"
    [] ch = "\"" -> "&quot;" [] ch = "'" -> "&#39;"
Letter(ch) ==
  CASE ch = "&" -> "m" [] ch = "<" -> "n" [] ch = ">" -> "o"
    [] ch = "\"" -> "p" [] ch = "'" -> "q"

Lettered(text) ==
  [i \in 1..Len(text) |-> IF text[i] \in Specials THEN Letter(text[i]) ELSE text[i]]

\* An event with the markup characters of every string of the document in it
\* exchanged for letters.
LetteredEvent(event) ==
  [f \in DOMAIN event |->
     IF f \in {"text", "dest_url", "title", "label"} THEN Lettered(event[f])
     ELSE IF f \in {"id", "lang"} /\ event[f] # None
     THEN Some(Lettered(event[f][1]))
     ELSE event[f]]

\* The markup characters an event carries, in all its strings.
RECURSIVE SpecialsIn(_)
SpecialsIn(events) ==
  IF events = <<>> THEN 0
  ELSE LET event == Head(events)
           strings ==
             [f \in DOMAIN event \cap {"text", "dest_url", "title", "label",
                                       "id", "lang"} |->
                IF f \in {"id", "lang"}
                THEN (IF event[f] = None THEN <<>> ELSE event[f][1])
                ELSE event[f]]
           count(f) == Cardinality({i \in 1..Len(strings[f]) :
                                      strings[f][i] \in Specials})
           RECURSIVE Sum(_)
           Sum(fs) == IF fs = {} THEN 0
                      ELSE LET f == CHOOSE f \in fs : TRUE
                           IN count(f) + Sum(fs \ {f})
       IN Sum(DOMAIN strings) + SpecialsIn(Tail(events))

\* render of a document given by its events, as one function.
RECURSIVE RenderFrom(_, _, _, _)
RenderFrom(events, st, line_starts, heading_ids) ==
  IF events = <<>> THEN st.output \o <<"</article>">>
  ELSE RenderFrom(Tail(events),
                  render_event(st, Head(events), line_starts, heading_ids),
                  line_starts, heading_ids)

RenderOf(job) ==
  RenderFrom(job.events, RenderLocals(<<"<article id=\"md-root\">">>),
             line_start_indices(job.markdown), collect_heading_ids(job.events))

\* C31: in the output of render every character & < > " ' that the document
\* supplies (text, inline code, html blocks and inline html, math, footnote
\* labels, and the attribute values href, src, alt, title, id and language)
\* stands as its entity: the html of the document and the html of the same
\* document with those characters exchanged for letters differ exactly where
\* the one has the letter and the other the entity of the character, and
\* that is as many places as the document has such characters.
C31_SourceEscaped ==
  \A p \in Tasks :
    pc[p] = "idle" /\ "done" \in DOMAIN local[p] =>
      \A k \in 1..Len(local[p].done) :
        LET job == local[p].done[k].job
            html == local[p].done[k].html
            lettered == RenderOf([markdown |-> job.markdown,
                                  events |-> [i \in 1..Len(job.events) |->
                                                LetteredEvent(job.events[i])]])
            changed == {i \in 1..Len(html) : html[i] # lettered[i]}
        IN /\ Len(html) = Len(lettered)
           /\ \A i \in changed :
                \E ch \in Specials :
                  lettered[i] = Letter(ch) /\ html[i] = Entity(ch)
           /\ Cardinality(changed) = SpecialsIn(job.events)

\* A document with an image whose destination, alternative text and title
\* carry a quote and an apostrophe, and a heading whose id carries & < >, has
\* been rendered.
C31_Witness ==
  \E p \in Tasks :
    /\ pc[p] = "idle"
    /\ "done" \in DOMAIN local[p]
    /\ local[p].done # <<>>
    /\ ret.op = "render"
    /\ LET events == local[p].done[1].job.events
       IN /\ \E i \in 1..Len(events) :
               /\ events[i].ev = "Start"
               /\ events[i].tag = "Image"
               /\ events[i].title = <<"a", "\"", "'">>
          /\ \E i \in 1..Len(events) :
               /\ events[i].ev = "Start"
               /\ events[i].tag = "Heading"
               /\ events[i].id = Some(<<"&", "<", ">">>)
    /\ \E i \in 1..Len(local[p].done[1].html) :
         local[p].done[1].html[i] = "&quot;"

\* C35: the handlers of text changes of one document run as tasks of their
\* own and meet at the gate's mutex in any order; whenever a call is allowed
\* after another call for the document was allowed, its timestamp is at least
\* one content window after that call's timestamp, so that no two allowed
\* calls fall into one window.
C35_AllowedWindowApart ==
  [][\A p \in DOMAIN BurstEvents :
       LET b == local[p].bufnr
           last == last_allowed.content[b]
       IN ( /\ AllowContentEmit(p)
            /\ ret'.val
            /\ last # None ) => local[p].now >= last[1] + content_window
  ]_vars

\* Two handlers of text changes of one document are in flight, and the gate
\* allowed both: one holds the snapshot it has yet to pass to update_content,
\* the other has just come back from the gate.
C35_Witness ==
  /\ ret.op = "allow_content_emit"
  /\ ret.val
  /\ ret.todo # None
  /\ \E q \in DOMAIN BurstEvents :
       /\ pc[q] = "idle"
       /\ "todo" \in DOMAIN local[q]
       /\ local[q].todo # ret.todo[1]
       /\ local[q].todo.bufnr = ret.bufnr

\* C36: under every interleaving of start, resume, stop and stop_all,
\* active_document() is none or a document that has a Session in the store.
\* The states looked at are those in which no operation is between its write
\* of the map and its write of active_bufnr.
C36_ActiveHasSession ==
  (\A p \in Tasks : pc[p] = "idle") =>
    (active_bufnr = None \/ Has(active_bufnr[1]))

\* C37: every Session in the map is Running or Paused.  A Session is Idle
\* only inside the critical section of the start that creates it, and Stopped
\* only once a stop has taken it out of the map, so that snapshot, subscribe
\* and the other accessors never find an Idle or a Stopped Session.
C37_StoredRunningOrPaused ==
  \A b \in DOMAIN sessions : sessions[b].state \in {"Running", "Paused"}

\* A stop holds the Session it removed and marked Stopped, while the map has
\* a Session of the same document again, which has been paused.
C37_Witness ==
  \E p \in Tasks :
    /\ pc[p] = "stop_active"
    /\ local[p].session.state = "Stopped"
    /\ Has(local[p].bufnr)
    /\ sessions[local[p].bufnr].state = "Paused"

\* C38: the change sequence a Session records never decreases: of the
\* snapshots of a burst of text changes, each handled by a task of its own,
\* one with a lower change sequence never overwrites one with a higher.
C38_ChangeSequenceMonotone ==
  [][\A b \in DOMAIN sessions \cap DOMAIN sessions' :
       sessions'[b].changedtick >= sessions[b].changedtick]_vars

\* A handler of an editor report is between its call and its return.
InFlight(p) == pc[p] # "idle" \/ "todo" \in DOMAIN local[p]

\* C39: whenever the gate rejects a cursor report as a duplicate of the last
\* allowed line of its document, the Session's cursor line is that line: the
\* viewers are not left on another line than the editor, also after a text
\* change has set the Session's cursor from its snapshot.  The rejections
\* looked at are those made while no other handler is in progress.
C39_DuplicateAlreadyShown ==
  [][\A p \in EditorTasks :
       LET b == local[p].bufnr
           last == last_allowed.cursor[b]
       IN ( /\ AllowCursorEmit(p)
            /\ last # None
            /\ last[1].line = local[p].line
            /\ ~ret'.val
            /\ Has(b)
            /\ \A q \in EditorTasks \ {p} : ~InFlight(q) )
          => sessions[b].cursor_line = local[p].line
  ]_vars

C40_ServerRunsWhilePreviewed ==
  ( /\ \A p \in Tasks : pc[p] = "idle"
    /\ sessions # <<>> ) => runtime.addr # None

====
